---- MODULE Spec2Model ----
(***************************************************************************)
(* A model of the ai-catalog repository.                                   *)
(*                                                                         *)
(*  - the duplicate-detection pipeline: generate_hash_keys (classify.py),  *)
(*    the duplicate_dictionary and products_enhanced tables (database.py)  *)
(*    and process_batch (process_products.py);                             *)
(*  - the MRO batch orchestrator: BatchProcessor (batch_processor.py),     *)
(*    MRODatabase (database_mro.py), MROClassifier (mro_classifier.py) and *)
(*    run_demo (run_demo.py).                                              *)
(*                                                                         *)
(* A Python str is modelled as a sequence of one-character strings, so     *)
(* that the key generators are computed character by character as the      *)
(* code computes them.  Weights are in hundredths (0.85 is 85).            *)
(***************************************************************************)
EXTENDS Integers, Sequences, FiniteSets, TLC

(***************************************************************************)
(* Characters.  Chars lists the alphabet of the model in code-point order  *)
(* (the order Python's sorted() uses on str).                              *)
(***************************************************************************)
Chars ==
    <<" ", "\"", ",", ".", "/", "0", "1", "2", "3", "4", "5", "6", "7", "8",
      "9", "M", "_", "a", "b", "c", "d", "e", "f", "g", "h", "i", "j", "k",
      "l", "m", "n", "o", "p", "q", "r", "s", "t", "u", "v", "w", "x", "y",
      "z">>

CharSet == {Chars[i] : i \in 1..Len(Chars)}

Ord == [c \in CharSet |-> CHOOSE i \in 1..Len(Chars) : Chars[i] = c]

Digits == {"0", "1", "2", "3", "4", "5", "6", "7", "8", "9"}

DigitVal == [c \in Digits |-> Ord[c] - Ord["0"]]

IsDigit(c) == c \in Digits

\* [a-z0-9]
IsLowerAlnum(c) == c \in CharSet /\ (IsDigit(c) \/ Ord[c] >= Ord["a"])

\* \w
IsWordChar(c) == IsLowerAlnum(c) \/ c = "_" \/ c = "M"

\* str.split() and str.strip() whitespace, \s
IsSpace(c) == c = " "

LowerChar(c) == IF c = "M" THEN "m" ELSE c

\* str.lower()
str_lower(s) == [i \in 1..Len(s) |-> LowerChar(s[i])]

\* s[i-1:j-1] of Python for 1-based i and exclusive end j
Slice(s, i, j) == IF j <= i THEN <<>> ELSE SubSeq(s, i, j - 1)

\* s[:n]
Prefix(s, n) == IF Len(s) <= n THEN s ELSE SubSeq(s, 1, n)

\* s[i-1:].startswith(t)
StartsWithAt(s, i, t) ==
    /\ i + Len(t) - 1 <= Len(s)
    /\ \A k \in 1..Len(t) : s[i + k - 1] = t[k]

RECURSIVE LStrip(_)
LStrip(s) == IF s # <<>> /\ IsSpace(Head(s)) THEN LStrip(Tail(s)) ELSE s

RECURSIVE RStrip(_)
RStrip(s) ==
    IF s # <<>> /\ IsSpace(s[Len(s)]) THEN RStrip(SubSeq(s, 1, Len(s) - 1)) ELSE s

\* str.strip()
str_strip(s) == RStrip(LStrip(s))

\* character classes of the regular expressions: \d, \w, \S
InClass(c, cls) ==
    CASE cls = "d" -> IsDigit(c)
      [] cls = "w" -> IsWordChar(c)
      [] cls = "S" -> ~IsSpace(c)
      [] cls = "s" -> IsSpace(c)

\* the position after the longest run of characters of class cls from i
RECURSIVE RunEnd(_, _, _)
RunEnd(s, i, cls) ==
    IF i <= Len(s) /\ InClass(s[i], cls) THEN RunEnd(s, i + 1, cls) ELSE i

\* str.split(): the maximal runs of non-whitespace characters
RECURSIVE SplitFrom(_, _)
SplitFrom(s, i) ==
    IF i > Len(s) THEN <<>>
    ELSE IF IsSpace(s[i]) THEN SplitFrom(s, i + 1)
    ELSE LET e == RunEnd(s, i, "S")
         IN  <<Slice(s, i, e)>> \o SplitFrom(s, e)

str_split(s) == SplitFrom(s, 1)

\* the maximal runs of \w characters, as a set
RECURSIVE WordRunsFrom(_, _)
WordRunsFrom(s, i) ==
    IF i > Len(s) THEN {}
    ELSE IF ~IsWordChar(s[i]) THEN WordRunsFrom(s, i + 1)
    ELSE LET e == RunEnd(s, i, "w")
         IN  {Slice(s, i, e)} \cup WordRunsFrom(s, e)

\* Python's str comparison a < b: by code points, a proper prefix is smaller
RECURSIVE StrLess(_, _)
StrLess(a, b) ==
    IF b = <<>> THEN FALSE
    ELSE IF a = <<>> THEN TRUE
    ELSE IF Head(a) = Head(b) THEN StrLess(Tail(a), Tail(b))
    ELSE Ord[Head(a)] < Ord[Head(b)]

\* sorted(words) for a list, by insertion
RECURSIVE InsertSorted(_, _)
InsertSorted(w, sortedList) ==
    IF sortedList = <<>> THEN <<w>>
    ELSE IF StrLess(w, Head(sortedList)) THEN <<w>> \o sortedList
    ELSE <<Head(sortedList)>> \o InsertSorted(w, Tail(sortedList))

RECURSIVE sorted(_)
sorted(words) ==
    IF words = <<>> THEN <<>>
    ELSE InsertSorted(words[Len(words)], sorted(SubSeq(words, 1, Len(words) - 1)))

\* sorted(S) for a set of distinct strings
RECURSIVE SortedSet(_)
SortedSet(S) ==
    IF S = {} THEN <<>>
    ELSE LET m == CHOOSE x \in S : \A y \in S \ {x} : StrLess(x, y)
         IN  <<m>> \o SortedSet(S \ {m})

\* sep.join(words)
RECURSIVE Join(_, _)
Join(words, sep) ==
    IF words = <<>> THEN <<>>
    ELSE IF Len(words) = 1 THEN words[1]
    ELSE words[1] \o sep \o Join(Tail(words), sep)

\* ''.join(words)
Concat(words) == Join(words, <<>>)

(***************************************************************************)
(* classify.py: GPT5HybridClassifier key generation                        *)
(***************************************************************************)

\* the four alternations of core_patterns, each \b(...)\b
core_patterns ==
    << { <<"p","a","r","a","f","u","s","o">>,
         <<"p","o","r","c","a">>,
         <<"a","r","r","u","e","l","a">>,
         <<"c","h","a","v","e">>,
         <<"f","e","r","r","a","m","e","n","t","a">>,
         <<"o","l","e","o">>,
         <<"g","r","a","x","a">>,
         <<"f","i","l","t","r","o">>,
         <<"v","a","l","v","u","l","a">>,
         <<"b","o","m","b","a">>,
         <<"m","o","t","o","r">> },
       { <<"s","e","x","t","a","v","a","d","o">>,
         <<"a","l","l","e","n">>,
         <<"p","h","i","l","l","i","p","s">>,
         <<"f","e","n","d","a">>,
         <<"t","o","r","x">> },
       { <<"a","c","o">>,
         <<"i","n","o","x">>,
         <<"f","e","r","r","o">>,
         <<"a","l","u","m","i","n","i","o">>,
         <<"p","l","a","s","t","i","c","o">>,
         <<"b","o","r","r","a","c","h","a">> },
       { <<"m","m">>,
         <<"c","m">>,
         <<"m">>,
         <<"p","o","l">>,
         <<"p","o","l","e","g","a","d","a">>,
         <<"l","i","t","r","o">>,
         <<"k","g">>,
         <<"g">> } >>

\* re.findall(r'\b(t1|t2|...)\b', text): every alternative is made of \w
\* characters only, so a match between two word boundaries is a maximal run
\* of \w characters that equals one of the alternatives.
FindAllWholeWords(terms, text) == WordRunsFrom(text, 1) \cap terms

\* _extract_core_terms: list(set(core_terms)), as a set
extract_core_terms(text) ==
    LET text_lower == str_lower(text)
    IN  UNION {FindAllWholeWords(core_patterns[p], text_lower) : p \in 1..Len(core_patterns)}

\* \d+(?:[.,]\d+)? matched greedily at i: the position after it, i when it
\* does not match.  What follows it in both patterns (\s*, a unit, x) cannot
\* start with a digit, '.' or ',', so giving characters back never helps.
NumEnd(s, i) ==
    LET e1 == RunEnd(s, i, "d")
    IN  IF e1 = i THEN i
        ELSE IF e1 <= Len(s) /\ s[e1] \in {".", ","} /\ RunEnd(s, e1 + 1, "d") > e1 + 1
             THEN RunEnd(s, e1 + 1, "d")
             ELSE e1

\* (mm|cm|m|pol|") at j: the first alternative that matches, <<>> when none
UnitAt(s, j) ==
    LET units == << <<"m","m">>, <<"c","m">>, <<"m">>, <<"p","o","l">>, <<"\"">> >>
        hits == {u \in 1..Len(units) : StartsWithAt(s, j, units[u])}
    IN  IF hits = {} THEN <<>>
        ELSE units[CHOOSE u \in hits : \A v \in hits : u <= v]

\* (\d+(?:[.,]\d+)?)\s*(mm|cm|m|pol|") at i: the two groups, <<>> when no match
DimUnitAt(s, i) ==
    LET e == NumEnd(s, i)
        j == RunEnd(s, e, "s")
    IN  IF e = i \/ UnitAt(s, j) = <<>> THEN <<>>
        ELSE << Slice(s, i, e), UnitAt(s, j) >>

\* (\d+(?:[.,]\d+)?)\s*x\s*(\d+(?:[.,]\d+)?) at i: the two groups
DimPairAt(s, i) ==
    LET e == NumEnd(s, i)
        j == RunEnd(s, e, "s")
        k == RunEnd(s, j + 1, "s")
        f == NumEnd(s, k)
    IN  IF e = i \/ j > Len(s) \/ s[j] # "x" \/ f = k THEN <<>>
        ELSE << Slice(s, i, e), Slice(s, k, f) >>

\* matches[0] of the first pattern: the groups of its leftmost match
FirstDimUnit(s) ==
    LET hits == {i \in 1..Len(s) : DimUnitAt(s, i) # <<>>}
    IN  IF hits = {} THEN <<>>
        ELSE DimUnitAt(s, CHOOSE i \in hits : \A k \in hits : i <= k)

\* matches[0] of the second pattern: the groups of its leftmost match
FirstDimPair(s) ==
    LET hits == {i \in 1..Len(s) : DimPairAt(s, i) # <<>>}
    IN  IF hits = {} THEN <<>>
        ELSE DimPairAt(s, CHOOSE i \in hits : \A k \in hits : i <= k)

\* re.findall(r'M(\d+)', s): the digits after each 'M'
RECURSIVE FindAllMetric(_, _)
FindAllMetric(s, i) ==
    IF i > Len(s) THEN <<>>
    ELSE LET e == RunEnd(s, i + 1, "d")
         IN  IF s[i] = "M" /\ e > i + 1
             THEN <<Slice(s, i + 1, e)>> \o FindAllMetric(s, e)
             ELSE FindAllMetric(s, i + 1)

\* re.findall(r'(\d+/\d+)', s)
RECURSIVE FindAllFractions(_, _)
FindAllFractions(s, i) ==
    IF i > Len(s) THEN <<>>
    ELSE LET e == RunEnd(s, i, "d")
             f == RunEnd(s, e + 1, "d")
         IN  IF e > i /\ e <= Len(s) /\ s[e] = "/" /\ f > e + 1
             THEN <<Slice(s, i, f)>> \o FindAllFractions(s, f)
             ELSE FindAllFractions(s, i + 1)

\* int(digits)
RECURSIVE ToInt(_)
ToInt(ds) ==
    IF ds = <<>> THEN 0 ELSE 10 * ToInt(SubSeq(ds, 1, Len(ds) - 1)) + DigitVal[ds[Len(ds)]]

DigitChar(d) == Chars[Ord["0"] + d]

\* str(n) for n >= 0
RECURSIVE IntToStr(_)
IntToStr(n) ==
    IF n < 10 THEN <<DigitChar(n)>> ELSE IntToStr(n \div 10) \o <<DigitChar(n % 10)>>

\* f"{a / b:.2f}" for integers a >= 0, b > 0.  A remainder of exactly one
\* half is rounded to the even hundredth, as Python rounds a double that
\* holds the quotient exactly (a denominator that is a power of two).
FormatQuotient2f(a, b) ==
    LET q == (100 * a) \div b
        r == (100 * a) % b
        h == IF 2 * r > b \/ (2 * r = b /\ q % 2 = 1) THEN q + 1 ELSE q
    IN  IntToStr(h \div 100) \o <<".">> \o <<DigitChar((h % 100) \div 10), DigitChar(h % 10)>>

\* the normalisation loop of _extract_dimensions for one extracted value
NormalizeDim(dim) ==
    IF \E k \in 1..Len(dim) : dim[k] = "/"
    THEN LET k == CHOOSE k \in 1..Len(dim) : dim[k] = "/"
             num == ToInt(Slice(dim, 1, k))
             den == ToInt(Slice(dim, k + 1, Len(dim) + 1))
         IN  IF den = 0 THEN dim             \* ZeroDivisionError: except appends dim
             ELSE FormatQuotient2f(num, den)
    ELSE dim    \* 'pol' or '"' alone: float('') raises, except appends dim

\* _extract_dimensions
extract_dimensions(text) ==
    LET s == str_lower(text)
        dimensions == FirstDimUnit(s) \o FirstDimPair(s)
                        \o FindAllMetric(s, 1) \o FindAllFractions(s, 1)
    IN  [k \in 1..Len(dimensions) |-> NormalizeDim(dimensions[k])]

\* hashlib.md5(normalized_name.encode()).hexdigest()[:10].  The digest is not
\* computed: it is a value determined by the name, different for different
\* names and different from every key built from the characters of a name.
Md5Hex10(s) == <<"md5">> \o s

KeyTypes == <<"exact", "alpha", "sorted", "core", "dim", "phon">>

\* generate_hash_keys
generate_hash_keys(normalized_name) ==
    LET lowered == str_lower(normalized_name)
        words == str_split(lowered)
        dimensions == extract_dimensions(normalized_name)
        significant_words == Prefix(SelectSeq(words, LAMBDA w : Len(w) > 2), 4)
        phon_key == Concat([k \in 1..Len(significant_words) |->
                               Prefix(significant_words[k], 3)])
    IN  [ exact  |-> str_strip(lowered),
          alpha  |-> SelectSeq(lowered, IsLowerAlnum),
          sorted |-> Join(sorted(words), <<"_">>),
          core   |-> Join(SortedSet(extract_core_terms(normalized_name)), <<"_">>),
          dim    |-> IF dimensions # <<>> THEN Join(dimensions, <<"_">>)
                     ELSE Md5Hex10(normalized_name),
          phon   |-> IF phon_key # <<>> THEN phon_key
                     ELSE str_lower(Prefix(normalized_name, 10)) ]

(***************************************************************************)
(* Bounds of the model                                                     *)
(***************************************************************************)

\* products saved to products_enhanced over all process_batch runs
MaxProducts == 5

\* products handed to one process_batch run
MaxBatch == 2

\* hit_count values kept apart (a larger count is stored as MaxHits)
MaxHits == 2

\* pipeline runs (main of process_products.py) working on one store at once
NumRuns == 2

\* products saved by the concurrent runs together
MaxConcurrent == 2

\* products saved to the MockDatabaseManager
MaxMockProducts == 2

\* the largest value of its next_group_id counter
MaxGroupId == 3

\* products saved by run_local, and group identifiers it hands out before
\* the operator discards a batch
MaxReviewed == 3

\* pieces a raw name given to normalize_product_name is made of
MaxPieces == 3

\* the normalized names the classifier returns in the model:
\* "", "mm 5", "5mmx", "5mm", "mm5"
NameSet ==
    { <<>>,
      <<"m","m"," ","5">>,
      <<"5","m","m","x">>,
      <<"5","m","m">>,
      <<"m","m","5">> }

VARIABLES
    products_enhanced,      \* the rows of table products_enhanced, by id
    duplicate_dictionary,   \* the rows of table duplicate_dictionary
    pc,                     \* where process_batch stands
    batch,                  \* classified / with_duplicates of process_batch
    idx,                    \* the loop position in the batch (1-based)
    allocated,              \* history: every value get_next_group_id returned
    last_batch,             \* how the last process_batch call ended in main
    runs,                   \* concurrent pipeline runs: where each stands, its product
    mock,                   \* the MockDatabaseManager of test_local.py and its caller
    applied                 \* a utility function applied to an input, and its result

dedup_vars ==
    <<products_enhanced, duplicate_dictionary, pc, batch, idx, allocated, last_batch,
      runs, mock, applied>>

VARIABLES
    mro_products,           \* the rows of table mro_products, by id
    command,                \* the operator command that is running
    mpc,                    \* where the running command stands
    batch_size,             \* batch_size of the BatchProcessor in use (0: none)
    pending_products,       \* the batch fetched / the product_ids requested
    position,               \* the loop position in pending_products (1-based)
    call,                   \* claude_classify: stage, attempt and backoff
    classification,         \* the result dict classify_product builds
    success,                \* the local success of the product loops
    stats,                  \* the stats dict of the running operation
    results,                \* what the last BatchProcessor operation returned
    connection,             \* self.db.conn of the BatchProcessor, and what it left open
    batch_delay             \* history: the batch just completed and whether the delay followed

mro_vars ==
    <<mro_products, command, mpc, batch_size, pending_products, position,
      call, classification, success, stats, results, connection, batch_delay>>

vars == <<dedup_vars, mro_vars>>

(***************************************************************************)
(* database.py: DUPLICATE_DETECTION_CONFIG and DatabaseManager             *)
(***************************************************************************)

\* DUPLICATE_DETECTION_CONFIG["key_weights"], in hundredths
key_weights ==
    [exact |-> 100, alpha |-> 95, sorted |-> 90, core |-> 85, dim |-> 85, phon |-> 75]

\* the literal 0.85 of check_duplicate_by_keys, in hundredths
DuplicateThreshold == 85

\* similarity_score 1.0 of a new unique product, in hundredths
FullSimilarity == 100

\* hit_count = hit_count + 1, kept within the model's bound
BumpHit(n) == IF n < MaxHits THEN n + 1 ELSE MaxHits

\* SELECT ... FROM duplicate_dictionary WHERE hash_key = %s AND key_type = %s
SelectByKeyAndType(dict, hash_key, key_type) ==
    {r \in dict : r.hash_key = hash_key /\ r.key_type = key_type}

\* mutation of UpdateHitCount: the UPDATE without its WHERE clause
UpdateHitCountAll(dict, hash_key) ==
    {[r EXCEPT !.hit_count = BumpHit(r.hit_count)] : r \in dict}

\* UPDATE duplicate_dictionary SET hit_count = hit_count + 1 WHERE hash_key = %s
UpdateHitCount(dict, hash_key) ==
    {IF r.hash_key = hash_key THEN [r EXCEPT !.hit_count = BumpHit(r.hit_count)] ELSE r
       : r \in dict}

\* best_match = None; `if best_match` is false for None and for 0 alike
NoMatch == 0

\* mutation of BetterScore: every matching key replaces the best so far
BetterScoreLastWins(score, best_score) == TRUE

\* if score > best_score
BetterScore(score, best_score) == score > best_score

\* mutation of IsDuplicate: the threshold is exclusive
IsDuplicateStrict(best_match, best_score) ==
    best_match # NoMatch /\ best_score > DuplicateThreshold

\* if best_match and best_score >= 0.85
IsDuplicate(best_match, best_score) ==
    best_match # NoMatch /\ best_score >= DuplicateThreshold

\* the for loop of check_duplicate_by_keys from key type number k on
RECURSIVE CheckLoop(_, _, _, _, _)
CheckLoop(hash_keys, dict, k, best_match, best_score) ==
    IF k > Len(KeyTypes)
    THEN [best_match |-> best_match, best_score |-> best_score, dict |-> dict]
    ELSE LET key_type == KeyTypes[k]
             hash_key == hash_keys[key_type]
             found == SelectByKeyAndType(dict, hash_key, key_type)
         IN  IF found = {} THEN CheckLoop(hash_keys, dict, k + 1, best_match, best_score)
             ELSE LET result == CHOOSE r \in found : TRUE
                      score == key_weights[key_type]
                      better == BetterScore(score, best_score)
                  IN  CheckLoop(hash_keys, UpdateHitCount(dict, hash_key), k + 1,
                                IF better THEN result.duplicate_group_id ELSE best_match,
                                IF better THEN score ELSE best_score)

\* check_duplicate_by_keys: the returned value and the dictionary it leaves
check_duplicate_by_keys(hash_keys, dict) ==
    LET l == CheckLoop(hash_keys, dict, 1, NoMatch, 0)
    IN  [ result |-> IF IsDuplicate(l.best_match, l.best_score)
                     THEN <<l.best_match, l.best_score>>
                     ELSE <<>>,             \* return None
          dict |-> l.dict ]

\* mutation of OnConflict: the conflicting insert also rebinds the group
OnConflictRebind(row, excluded) ==
    [row EXCEPT !.hit_count = BumpHit(row.hit_count),
                !.duplicate_group_id = excluded.duplicate_group_id]

\* ON CONFLICT (hash_key) DO UPDATE SET hit_count = duplicate_dictionary.hit_count + 1
OnConflict(row, excluded) == [row EXCEPT !.hit_count = BumpHit(row.hit_count)]

\* INSERT INTO duplicate_dictionary ... ON CONFLICT (hash_key) ...
InsertOrBump(dict, new) ==
    IF \E r \in dict : r.hash_key = new.hash_key
    THEN {IF r.hash_key = new.hash_key THEN OnConflict(r, new) ELSE r : r \in dict}
    ELSE dict \cup {new}

\* the for loop of register_product_keys from key type number k on
RECURSIVE RegisterLoop(_, _, _, _, _)
RegisterLoop(product_id, hash_keys, duplicate_group_id, dict, k) ==
    IF k > Len(KeyTypes) THEN dict
    ELSE LET key_type == KeyTypes[k]
             new == [ hash_key |-> hash_keys[key_type],
                      duplicate_group_id |-> duplicate_group_id,
                      key_type |-> key_type,
                      confidence_weight |-> key_weights[key_type],
                      master_product_id |-> product_id,
                      hit_count |-> 0 ]
         IN  RegisterLoop(product_id, hash_keys, duplicate_group_id,
                          InsertOrBump(dict, new), k + 1)

\* register_product_keys
register_product_keys(product_id, hash_keys, duplicate_group_id, dict) ==
    RegisterLoop(product_id, hash_keys, duplicate_group_id, dict, 1)

MaxOf(S) == CHOOSE m \in S : \A x \in S : x <= m

\* get_next_group_id: SELECT COALESCE(MAX(duplicate_group_id), 0) + 1
get_next_group_id(products) ==
    LET ids == {products[i].duplicate_group_id : i \in 1..Len(products)}
    IN  (IF ids = {} THEN 0 ELSE MaxOf(ids)) + 1

(***************************************************************************)
(* classify.py: normalize_product_name                                     *)
(***************************************************************************)

\* str.lower() on the characters of the names normalized in the model
NameLowerChar(c) ==
    CASE c = "M" -> "m"
      [] c = "É" -> "é"
      [] OTHER -> c

\* unicodedata.normalize('NFD', c) without its characters of category Mn
WithoutMarks(c) == IF c = "é" THEN <<"e">> ELSE <<c>>

\* ''.join(c for c in unicodedata.normalize('NFD', s) if category(c) != 'Mn')
RECURSIVE RemoveAccents(_)
RemoveAccents(s) ==
    IF s = <<>> THEN <<>> ELSE WithoutMarks(Head(s)) \o RemoveAccents(Tail(s))

\* str.replace(old, new) from position i on: the occurrences of old, left
\* to right and not overlapping
RECURSIVE ReplaceFrom(_, _, _, _)
ReplaceFrom(s, i, old, new) ==
    IF i > Len(s) THEN <<>>
    ELSE IF StartsWithAt(s, i, old) THEN new \o ReplaceFrom(s, i + Len(old), old, new)
    ELSE <<s[i]>> \o ReplaceFrom(s, i + 1, old, new)

str_replace(s, old, new) == ReplaceFrom(s, 1, old, new)

\* replacements, in the order of the dict
replacements ==
    << << <<"p","o","l">>, <<"m","m">> >>,
       << <<"p","o","l","e","g","a","d","a">>, <<"m","m">> >>,
       << <<"\"">>, <<"m","m">> >>,
       << <<"1","/","2">>, <<"1","2",".","7">> >>,
       << <<"1","/","4">>, <<"6",".","3","5">> >>,
       << <<"3","/","4">>, <<"1","9",".","0","5">> >>,
       << <<"3","/","8">>, <<"9",".","5","2","5">> >>,
       << <<"5","/","8">>, <<"1","5",".","8","7","5">> >>,
       << <<"s","e","x","t">>, <<"s","e","x","t","a","v","a","d","o">> >>,
       << <<"c","h","a","v">>, <<"c","h","a","v","e">> >>,
       << <<"p","/">>, <<"p","a","r","a">> >> >>

\* for old, new in replacements.items(): normalized = normalized.replace(old, new)
RECURSIVE ReplaceAll(_, _)
ReplaceAll(s, k) ==
    IF k > Len(replacements) THEN s
    ELSE ReplaceAll(str_replace(s, replacements[k][1], replacements[k][2]), k + 1)

normalize_product_name(name) ==
    LET lowered == [i \in 1..Len(name) |-> NameLowerChar(name[i])]
        normalized == ReplaceAll(RemoveAccents(lowered), 1)
    IN  Join(str_split(normalized), <<" ">>)

\* pieces of raw product names; a name of the model is up to MaxPieces of them
NamePieces ==
    { <<"c","h","a","v">>, <<"s","e","x","t">>, <<"p","o","l">>, <<"1","/","2">>,
      <<"\"">>, <<"p","/">>, <<" ">>, <<"e">>, <<"É">>, <<"M">>, <<"m","m">> }

RawNames == {Concat(ps) : ps \in UNION {[1..n -> NamePieces] : n \in 0..MaxPieces}}

\* nothing has been applied yet
NotApplied == [pc |-> "idle", input |-> <<>>, previous |-> <<>>, result |-> <<>>]

\* normalize_product_name(name) for a raw name
NormalizeProductName ==
    /\ applied.pc = "idle"
    /\ \E name \in RawNames :
         applied' = [pc |-> "normalized", input |-> name, previous |-> name,
                     result |-> normalize_product_name(name)]
    /\ UNCHANGED <<products_enhanced, duplicate_dictionary, pc, batch, idx,
                   allocated, last_batch, runs, mock>>
    /\ UNCHANGED mro_vars

\* normalize_product_name applied to what it returned
NormalizeAgain ==
    /\ applied.pc = "normalized"
    /\ applied' = [applied EXCEPT !.pc = "renormalized",
                                  !.previous = applied.result,
                                  !.result = normalize_product_name(applied.result)]
    /\ UNCHANGED <<products_enhanced, duplicate_dictionary, pc, batch, idx,
                   allocated, last_batch, runs, mock>>
    /\ UNCHANGED mro_vars

NormalizeNext ==
    \/ NormalizeProductName
    \/ NormalizeAgain

(***************************************************************************)
(* classify.py: generate_hash_keys on its own, for names with dimensions   *)
(***************************************************************************)

\* pieces of normalized names that carry dimensions; a name of the model is
\* up to MaxPieces of them
DimPieces ==
    { <<"M">>, <<"8">>, <<"5">>, <<"m","m">>, <<"x">>, <<"/">>, <<" ">>,
      <<"a">>, <<"p","o","l">> }

DimNames == {Concat(ps) : ps \in UNION {[1..n -> DimPieces] : n \in 0..MaxPieces}}

\* generate_hash_keys(normalized_name) for a name the classifier returned
GenerateHashKeys ==
    /\ applied.pc = "idle"
    /\ \E name \in DimNames :
         applied' = [pc |-> "keys", input |-> name, previous |-> <<>>,
                     result |-> generate_hash_keys(name)]
    /\ UNCHANGED <<products_enhanced, duplicate_dictionary, pc, batch, idx,
                   allocated, last_batch, runs, mock>>
    /\ UNCHANGED mro_vars

\* the keys are handed on and the next name is taken
GenerateHashKeysReturn ==
    /\ applied.pc = "keys"
    /\ applied' = NotApplied
    /\ UNCHANGED <<products_enhanced, duplicate_dictionary, pc, batch, idx,
                   allocated, last_batch, runs, mock>>
    /\ UNCHANGED mro_vars

HashKeysNext ==
    \/ GenerateHashKeys
    \/ GenerateHashKeysReturn

(***************************************************************************)
(* test_local.py: MockDatabaseManager                                      *)
(***************************************************************************)

\* the similarity 0.95 the mock reports for any match, in hundredths
MockSimilarity == 95

\* MockDatabaseManager.__init__ (pc and product belong to its caller)
MockDatabaseManager ==
    [ products |-> 0, duplicate_registry |-> {}, next_group_id |-> 1,
      pc |-> "idle", product |-> <<>> ]

\* self.duplicate_registry[hash_key] of the mock
RegistryGet(registry, hash_key) ==
    (CHOOSE e \in registry : e.hash_key = hash_key).duplicate_group_id

\* the for loop of the mock's check_duplicate_by_keys from key type number k
\* on: the first key that is in the registry decides
RECURSIVE MockCheckLoop(_, _, _)
MockCheckLoop(hash_keys, registry, k) ==
    IF k > Len(KeyTypes) THEN <<>>
    ELSE LET hash_key == hash_keys[KeyTypes[k]]
         IN  IF \E e \in registry : e.hash_key = hash_key
             THEN <<RegistryGet(registry, hash_key), MockSimilarity>>
             ELSE MockCheckLoop(hash_keys, registry, k + 1)

\* MockDatabaseManager.check_duplicate_by_keys
Mock_check_duplicate_by_keys(hash_keys, registry) == MockCheckLoop(hash_keys, registry, 1)

\* mutation of Mock_get_next_group_id: the counter advances by two
Mock_get_next_group_id_skip(next_group_id) ==
    [group_id |-> next_group_id, next_group_id |-> next_group_id + 2]

\* MockDatabaseManager.get_next_group_id: the id returned, the counter left
Mock_get_next_group_id(next_group_id) ==
    [group_id |-> next_group_id, next_group_id |-> next_group_id + 1]

\* the for loop of the mock's register_product_keys from key type number k
\* on: self.duplicate_registry[hash_key] = duplicate_group_id
RECURSIVE MockRegisterLoop(_, _, _, _)
MockRegisterLoop(hash_keys, duplicate_group_id, registry, k) ==
    IF k > Len(KeyTypes) THEN registry
    ELSE LET hash_key == hash_keys[KeyTypes[k]]
         IN  MockRegisterLoop(hash_keys, duplicate_group_id,
                 {e \in registry : e.hash_key # hash_key}
                     \cup {[hash_key |-> hash_key, duplicate_group_id |-> duplicate_group_id]},
                 k + 1)

\* MockDatabaseManager.register_product_keys
Mock_register_product_keys(hash_keys, duplicate_group_id, registry) ==
    MockRegisterLoop(hash_keys, duplicate_group_id, registry, 1)

(***************************************************************************)
(* process_products.py: process_batch, one step per database call          *)
(***************************************************************************)

DedupInit ==
    /\ products_enhanced = <<>>
    /\ duplicate_dictionary = {}
    /\ pc = "idle"
    /\ batch = <<>>
    /\ idx = 0
    /\ allocated = <<>>
    /\ last_batch = "none"
    /\ runs = [r \in 1..NumRuns |-> [pc |-> "idle", product |-> <<>>]]
    /\ mock = MockDatabaseManager
    /\ applied = NotApplied

\* item['hash_keys'] of classify_batch for every name of the model
HashKeysOf == [name \in NameSet |-> generate_hash_keys(name)]

\* the batches main may hand to process_batch
Batches == UNION {[1..n -> NameSet] : n \in 1..MaxBatch}

\* classify_batch returns one classification per product, each with the
\* hash keys of its normalized name; detect_duplicates starts
ClassifyBatch ==
    /\ pc = "idle"
    /\ \E names \in Batches :
         /\ Len(products_enhanced) + Len(names) <= MaxProducts
         /\ batch' = [i \in 1..Len(names) |->
                        [ normalized_name |-> names[i],
                          hash_keys |-> HashKeysOf[names[i]],
                          duplicate_group_id |-> 0,
                          similarity_score |-> 0,
                          is_master |-> FALSE ]]
    /\ pc' = "detect"
    /\ idx' = 1
    /\ UNCHANGED <<products_enhanced, duplicate_dictionary, allocated, last_batch>>
    /\ UNCHANGED <<runs, mock, applied, mro_vars>>

\* the external call of classify_batch fails: its except branch returns
\* records without 'hash_keys', detect_duplicates raises KeyError on the
\* first of them, process_batch propagates it and main goes to the next batch
ClassifyBatchError ==
    /\ pc = "idle"
    /\ Len(products_enhanced) < MaxProducts
    /\ last_batch' = "error"
    /\ UNCHANGED <<products_enhanced, duplicate_dictionary, pc, batch, idx, allocated>>
    /\ UNCHANGED <<runs, mock, applied, mro_vars>>

\* the body of the loop of detect_duplicates for product number idx
DetectDuplicates ==
    /\ pc = "detect"
    /\ LET product == batch[idx]
           duplicate_result == check_duplicate_by_keys(product.hash_keys, duplicate_dictionary)
           new_group_id == get_next_group_id(products_enhanced)
       IN  /\ duplicate_dictionary' = duplicate_result.dict
           /\ IF duplicate_result.result # <<>>
              THEN /\ batch' = [batch EXCEPT ![idx] =
                                  [@ EXCEPT !.duplicate_group_id = duplicate_result.result[1],
                                            !.similarity_score = duplicate_result.result[2],
                                            !.is_master = FALSE]]
                   /\ UNCHANGED allocated
              ELSE /\ batch' = [batch EXCEPT ![idx] =
                                  [@ EXCEPT !.duplicate_group_id = new_group_id,
                                            !.similarity_score = FullSimilarity,
                                            !.is_master = TRUE]]
                   /\ allocated' = Append(allocated, new_group_id)
    /\ IF idx < Len(batch)
       THEN idx' = idx + 1 /\ pc' = "detect"
       ELSE idx' = 1 /\ pc' = "save"
    /\ UNCHANGED <<products_enhanced, last_batch>>
    /\ UNCHANGED <<runs, mock, applied, mro_vars>>

\* what follows the save of product number idx in the loop of process_batch
AfterProduct ==
    IF idx < Len(batch)
    THEN idx' = idx + 1 /\ pc' = "save" /\ UNCHANGED <<batch, last_batch>>
    ELSE idx' = 0 /\ pc' = "idle" /\ batch' = <<>> /\ last_batch' = "ok"

\* db.save_product(product, batch_id, position)
SaveProduct ==
    /\ pc = "save"
    /\ LET product == batch[idx]
       IN  /\ products_enhanced' = Append(products_enhanced,
                 [ normalized_name |-> product.normalized_name,
                   duplicate_group_id |-> product.duplicate_group_id,
                   is_master |-> product.is_master,
                   similarity_score |-> product.similarity_score ])
           /\ IF product.is_master
              THEN pc' = "register" /\ UNCHANGED <<idx, batch, last_batch>>
              ELSE AfterProduct
    /\ UNCHANGED <<duplicate_dictionary, allocated>>
    /\ UNCHANGED <<runs, mock, applied, mro_vars>>

\* db.register_product_keys(product_id, hash_keys, duplicate_group_id, key_weights)
RegisterProductKeys ==
    /\ pc = "register"
    /\ LET product == batch[idx]
           product_id == Len(products_enhanced)
       IN  duplicate_dictionary' =
               register_product_keys(product_id, product.hash_keys,
                                     product.duplicate_group_id, duplicate_dictionary)
    /\ AfterProduct
    /\ UNCHANGED <<products_enhanced, allocated>>
    /\ UNCHANGED <<runs, mock, applied, mro_vars>>

DedupNext ==
    \/ ClassifyBatch
    \/ ClassifyBatchError
    \/ DetectDuplicates
    \/ SaveProduct
    \/ RegisterProductKeys

(***************************************************************************)
(* Several runs of main on the same database.  The batch a run hands to    *)
(* process_batch holds one product (a CSV of one line, or the last batch   *)
(* of a longer one), so inside a run every product is saved and registered *)
(* before the next one is resolved; a step is one call of the run's        *)
(* DatabaseManager, and what it commits is visible to the other runs.      *)
(***************************************************************************)

\* classify_batch of run r returns the classification of its product;
\* product is the one-element list detect_duplicates works on
RunClassifyBatch(r) ==
    /\ runs[r].pc = "idle"
    /\ Len(products_enhanced) < MaxConcurrent
    /\ \E name \in NameSet :
         runs' = [runs EXCEPT ![r] =
                    [ pc |-> "detect",
                      product |-> << [ normalized_name |-> name,
                                       hash_keys |-> HashKeysOf[name],
                                       duplicate_group_id |-> 0,
                                       similarity_score |-> 0,
                                       is_master |-> FALSE ] >> ]]
    /\ UNCHANGED <<products_enhanced, duplicate_dictionary, pc, batch, idx,
                   allocated, last_batch>>
    /\ UNCHANGED <<mock, applied, mro_vars>>

\* detect_duplicates of run r on its product
DetectOn(r) ==
    /\ LET product == runs[r].product[1]
           duplicate_result == check_duplicate_by_keys(product.hash_keys, duplicate_dictionary)
           new_group_id == get_next_group_id(products_enhanced)
       IN  /\ duplicate_dictionary' = duplicate_result.dict
           /\ IF duplicate_result.result # <<>>
              THEN /\ runs' = [runs EXCEPT ![r] =
                        [ pc |-> "save",
                          product |-> << [product EXCEPT
                              !.duplicate_group_id = duplicate_result.result[1],
                              !.similarity_score = duplicate_result.result[2],
                              !.is_master = FALSE] >> ]]
                   /\ UNCHANGED allocated
              ELSE /\ runs' = [runs EXCEPT ![r] =
                        [ pc |-> "save",
                          product |-> << [product EXCEPT
                              !.duplicate_group_id = new_group_id,
                              !.similarity_score = FullSimilarity,
                              !.is_master = TRUE] >> ]]
                   /\ allocated' = Append(allocated, new_group_id)
    /\ UNCHANGED <<products_enhanced, pc, batch, idx, last_batch>>
    /\ UNCHANGED <<mock, applied, mro_vars>>

\* process_batch of run r calls detect_duplicates on what classify_batch returned
RunDetectDuplicates(r) ==
    /\ runs[r].pc = "detect"
    /\ DetectOn(r)

\* detect_duplicates called once more on the list it returned, before
\* anything of it is saved
RunDetectAgain(r) ==
    /\ runs[r].pc = "save"
    /\ Len(allocated) <= MaxConcurrent
    /\ DetectOn(r)

\* db.save_product of run r; a master goes on to register its keys
RunSaveProduct(r) ==
    /\ runs[r].pc = "save"
    /\ LET product == runs[r].product[1]
       IN  /\ products_enhanced' = Append(products_enhanced,
                 [ normalized_name |-> product.normalized_name,
                   duplicate_group_id |-> product.duplicate_group_id,
                   is_master |-> product.is_master,
                   similarity_score |-> product.similarity_score ])
           /\ runs' = [runs EXCEPT ![r] =
                 IF product.is_master
                 THEN [ pc |-> "register",
                        product |-> << product, Len(products_enhanced) + 1 >> ]
                 ELSE [ pc |-> "idle", product |-> <<>> ]]
    /\ UNCHANGED <<duplicate_dictionary, pc, batch, idx, allocated, last_batch>>
    /\ UNCHANGED <<mock, applied, mro_vars>>

\* db.register_product_keys of run r with the product_id save_product returned
RunRegisterProductKeys(r) ==
    /\ runs[r].pc = "register"
    /\ LET product == runs[r].product[1]
           product_id == runs[r].product[2]
       IN  duplicate_dictionary' =
               register_product_keys(product_id, product.hash_keys,
                                     product.duplicate_group_id, duplicate_dictionary)
    /\ runs' = [runs EXCEPT ![r] = [ pc |-> "idle", product |-> <<>> ]]
    /\ UNCHANGED <<products_enhanced, pc, batch, idx, allocated, last_batch>>
    /\ UNCHANGED <<mock, applied, mro_vars>>

(***************************************************************************)
(* test_local.py: the MockDatabaseManager, called in the order in which    *)
(* process_batch calls a DatabaseManager                                   *)
(***************************************************************************)

\* the names test_local.py reads for the mock: "", which has no vocabulary
\* term and no dimension, and "mm 5" and "mm5", which share their alpha key
MockNames == { <<>>, <<"m","m"," ","5">>, <<"m","m","5">> }

MockClassifyBatch ==
    /\ mock.pc = "idle"
    /\ mock.products < MaxMockProducts
    /\ \E name \in MockNames :
         mock' = [mock EXCEPT
                    !.pc = "detect",
                    !.product = << [ normalized_name |-> name,
                                     hash_keys |-> HashKeysOf[name],
                                     duplicate_group_id |-> 0,
                                     similarity_score |-> 0,
                                     is_master |-> FALSE ] >>]
    /\ UNCHANGED <<products_enhanced, duplicate_dictionary, pc, batch, idx,
                   allocated, last_batch, runs, applied>>
    /\ UNCHANGED mro_vars

\* detect_duplicates of a classifier built on the mock
MockDetect ==
    /\ mock.next_group_id <= MaxGroupId
    /\ LET product == mock.product[1]
           duplicate_result ==
               Mock_check_duplicate_by_keys(product.hash_keys, mock.duplicate_registry)
           new_group_id == Mock_get_next_group_id(mock.next_group_id)
       IN  IF duplicate_result # <<>>
           THEN mock' = [mock EXCEPT
                    !.pc = "save",
                    !.product = << [product EXCEPT
                        !.duplicate_group_id = duplicate_result[1],
                        !.similarity_score = duplicate_result[2],
                        !.is_master = FALSE] >>]
           ELSE mock' = [mock EXCEPT
                    !.pc = "save",
                    !.next_group_id = new_group_id.next_group_id,
                    !.product = << [product EXCEPT
                        !.duplicate_group_id = new_group_id.group_id,
                        !.similarity_score = FullSimilarity,
                        !.is_master = TRUE] >>]
    /\ UNCHANGED <<products_enhanced, duplicate_dictionary, pc, batch, idx,
                   allocated, last_batch, runs, applied>>
    /\ UNCHANGED mro_vars

MockDetectDuplicates ==
    /\ mock.pc = "detect"
    /\ MockDetect

\* detect_duplicates called once more on the list it returned
MockDetectAgain ==
    /\ mock.pc = "save"
    /\ MockDetect

\* MockDatabaseManager.save_product
MockSaveProduct ==
    /\ mock.pc = "save"
    /\ mock' = [mock EXCEPT
                  !.products = @ + 1,
                  !.pc = IF mock.product[1].is_master THEN "register" ELSE "idle",
                  !.product = IF mock.product[1].is_master THEN @ ELSE <<>>]
    /\ UNCHANGED <<products_enhanced, duplicate_dictionary, pc, batch, idx,
                   allocated, last_batch, runs, applied>>
    /\ UNCHANGED mro_vars

\* MockDatabaseManager.register_product_keys for a master
MockRegisterProductKeys ==
    /\ mock.pc = "register"
    /\ mock' = [mock EXCEPT
                  !.duplicate_registry =
                      Mock_register_product_keys(mock.product[1].hash_keys,
                                                 mock.product[1].duplicate_group_id, @),
                  !.pc = "idle",
                  !.product = <<>>]
    /\ UNCHANGED <<products_enhanced, duplicate_dictionary, pc, batch, idx,
                   allocated, last_batch, runs, applied>>
    /\ UNCHANGED mro_vars

\* detect_duplicates called twice, on the PostgreSQL DatabaseManager by one
\* pipeline run and on the MockDatabaseManager
ResolveNext ==
    \/ RunClassifyBatch(1)
    \/ RunDetectDuplicates(1)
    \/ RunDetectAgain(1)
    \/ RunSaveProduct(1)
    \/ RunRegisterProductKeys(1)
    \/ MockClassifyBatch
    \/ MockDetectDuplicates
    \/ MockDetectAgain
    \/ MockSaveProduct
    \/ MockRegisterProductKeys

ConcurrentNext ==
    \E r \in 1..NumRuns :
        \/ RunClassifyBatch(r)
        \/ RunDetectDuplicates(r)
        \/ RunSaveProduct(r)
        \/ RunRegisterProductKeys(r)


(***************************************************************************)
(* run_local.py: process_batch_with_review makes the calls of process_batch *)
(* (classify_batch, detect_duplicates, then save_product and               *)
(* register_product_keys for every product) with a prompt between          *)
(* detect_duplicates and the first save.  The answer "yes" goes on to the  *)
(* saving steps above; the two other answers are the steps below.          *)
(***************************************************************************)

\* classified = classifier.classify_batch(products, batch_number), as in
\* process_batch; detect_duplicates starts
ReviewClassifyBatch ==
    /\ pc = "idle"
    /\ \E names \in Batches :
         /\ Len(products_enhanced) + Len(names) <= MaxReviewed
         /\ batch' = [i \in 1..Len(names) |->
                        [ normalized_name |-> names[i],
                          hash_keys |-> HashKeysOf[names[i]],
                          duplicate_group_id |-> 0,
                          similarity_score |-> 0,
                          is_master |-> FALSE ]]
    /\ pc' = "detect"
    /\ idx' = 1
    /\ UNCHANGED <<products_enhanced, duplicate_dictionary, allocated, last_batch>>
    /\ UNCHANGED <<runs, mock, applied, mro_vars>>

\* the external call of classify_batch fails and detect_duplicates raises
\* KeyError: process_batch_with_review returns 'error' and main breaks out
\* of its batch loop
ReviewError ==
    /\ pc = "idle"
    /\ Len(products_enhanced) < MaxReviewed
    /\ last_batch' = "error"
    /\ UNCHANGED <<products_enhanced, duplicate_dictionary, pc, batch, idx, allocated>>
    /\ UNCHANGED <<runs, mock, applied, mro_vars>>

\* response == 'quit': process_batch_with_review returns 'quit' and main
\* breaks out of its batch loop
ReviewQuit ==
    /\ pc = "save"
    /\ idx = 1
    /\ Len(allocated) < MaxReviewed
    /\ pc' = "idle"
    /\ idx' = 0
    /\ batch' = <<>>
    /\ last_batch' = "quit"
    /\ UNCHANGED <<products_enhanced, duplicate_dictionary, allocated>>
    /\ UNCHANGED <<runs, mock, applied, mro_vars>>

\* any other answer: 'skip' is returned and main goes on (to the prompt
\* "Continue to next batch?")
ReviewSkip ==
    /\ pc = "save"
    /\ idx = 1
    /\ Len(allocated) < MaxReviewed
    /\ pc' = "idle"
    /\ idx' = 0
    /\ batch' = <<>>
    /\ last_batch' = "skip"
    /\ UNCHANGED <<products_enhanced, duplicate_dictionary, allocated>>
    /\ UNCHANGED <<runs, mock, applied, mro_vars>>

\* the steps of run_local
LocalNext ==
    \/ ReviewClassifyBatch
    \/ ReviewError
    \/ DetectDuplicates
    \/ ReviewQuit
    \/ ReviewSkip
    \/ SaveProduct
    \/ RegisterProductKeys

(***************************************************************************)
(* Properties of the duplicate-detection pipeline                          *)
(***************************************************************************)

\* the products of the current batch that detect_duplicates has resolved,
\* while no product of the batch has been saved or registered yet
ResolvedInBatch ==
    IF pc = "detect" THEN 1..(idx - 1)
    ELSE IF pc = "save" /\ idx = 1 THEN 1..Len(batch)
    ELSE {}

\* the dictionary rows a product's keys match: same hash_key and same key_type
MatchingRows(hash_keys, dict) ==
    {r \in dict : \E k \in 1..Len(KeyTypes) :
        r.key_type = KeyTypes[k] /\ r.hash_key = hash_keys[KeyTypes[k]]}

\* the best matching weight, 0 when no key matches
BestWeight(hash_keys, dict) ==
    LET ws == {r.confidence_weight : r \in MatchingRows(hash_keys, dict)}
    IN  IF ws = {} THEN 0 ELSE MaxOf(ws)

\* the groups bound to the matching rows of the best weight
BestGroups(hash_keys, dict) ==
    {r.duplicate_group_id : r \in {m \in MatchingRows(hash_keys, dict) :
        m.confidence_weight = BestWeight(hash_keys, dict)}}

\* C1: every call to get_next_group_id returns an identifier that no earlier
\* call has returned, also for consecutive calls with no product saved in
\* between (several new products of one batch).
C1_FreshGroupIds ==
    \A i, j \in 1..Len(allocated) : i # j => allocated[i] # allocated[j]

\* C2: after any sequence of process_batch runs, each duplicate_group_id of
\* products_enhanced has exactly one product with is_master = true.
C2_OneMasterPerGroup ==
    pc = "idle" =>
        \A i \in 1..Len(products_enhanced) :
            Cardinality({m \in 1..Len(products_enhanced) :
                /\ products_enhanced[m].duplicate_group_id =
                       products_enhanced[i].duplicate_group_id
                /\ products_enhanced[m].is_master}) = 1

\* C3: once a row for a hash_key exists, its duplicate_group_id, key_type and
\* confidence_weight never change, whatever group a later caller passes for
\* the same hash_key; only hit_count changes, and it never decreases.
C3_BindingImmutable ==
    [][\A r \in duplicate_dictionary :
          /\ Cardinality({n \in duplicate_dictionary' : n.hash_key = r.hash_key}) = 1
          /\ \E n \in duplicate_dictionary' :
               /\ n.hash_key = r.hash_key
               /\ n.hit_count >= r.hit_count
               /\ n = [r EXCEPT !.hit_count = n.hit_count]]_dedup_vars

\* C3 witness: a master has been registered whose key was already bound to
\* another group; the row was hit and still names the first group.
C3_Witness ==
    /\ pc = "idle"
    /\ \E i \in 1..Len(products_enhanced), r \in duplicate_dictionary :
         /\ products_enhanced[i].is_master
         /\ r.master_product_id < i
         /\ r.duplicate_group_id # products_enhanced[i].duplicate_group_id
         /\ r.hit_count >= 1
         /\ \E k \in 1..Len(KeyTypes) :
              r.hash_key = HashKeysOf[products_enhanced[i].normalized_name][KeyTypes[k]]

\* C8: once a product has been resolved as a new master, saved, and its keys
\* registered, every later product with the same normalized name resolves to
\* that master's duplicate_group_id with is_master = false and similarity
\* >= 0.85, whatever other entries the dictionary already held.
C8_SameNameJoinsMaster ==
    \A j \in ResolvedInBatch, i \in 1..Len(products_enhanced) :
        ( /\ products_enhanced[i].is_master
          /\ products_enhanced[i].normalized_name = batch[j].normalized_name )
        => /\ batch[j].duplicate_group_id = products_enhanced[i].duplicate_group_id
           /\ ~batch[j].is_master
           /\ batch[j].similarity_score >= DuplicateThreshold

\* what C9 says of the step of detect_duplicates for product number idx
C9_Step ==
    LET keys == batch[idx].hash_keys
        best == BestWeight(keys, duplicate_dictionary)
        after == batch'[idx]
    IN  IF best >= 85
        THEN /\ ~after.is_master
             /\ after.similarity_score = best
             /\ after.duplicate_group_id \in BestGroups(keys, duplicate_dictionary)
             /\ allocated' = allocated
        ELSE /\ after.is_master
             /\ after.similarity_score = 100
             /\ Len(allocated') = Len(allocated) + 1
             /\ after.duplicate_group_id = allocated'[Len(allocated')]

\* C9: detect_duplicates joins a product to the matched group (is_master =
\* false, similarity = the best matching weight) exactly when the best
\* matching weight is >= 0.85, 0.85 included; otherwise (empty dictionary,
\* only phon matching) the product becomes a new master with similarity 1.0
\* and a group id from get_next_group_id.
C9_JoinIffBestAtLeastThreshold ==
    [][pc = "detect" => C9_Step]_dedup_vars

\* C9 witness: a product whose best matching weight is exactly 0.85 (core or
\* dim, nothing heavier) has been joined to the matched group.
C9_Witness ==
    \E j \in ResolvedInBatch :
        /\ ~batch[j].is_master
        /\ batch[j].similarity_score = 85
        /\ BestWeight(batch[j].hash_keys, duplicate_dictionary) = 85
        /\ batch[j].duplicate_group_id
              \in BestGroups(batch[j].hash_keys, duplicate_dictionary)

\* the matching rows of weight below the best one that are bound to a group
\* other than the best one's
OutvotedRows(hash_keys, dict) ==
    {r \in MatchingRows(hash_keys, dict) :
        /\ r.confidence_weight < BestWeight(hash_keys, dict)
        /\ r.duplicate_group_id \notin BestGroups(hash_keys, dict)}

\* C10: when several keys of a product match dictionary entries bound to
\* different groups, check_duplicate_by_keys returns the group bound to the
\* matching key type with the highest weight, however many matching keys of
\* lower weight agree on another group.
C10_HighestWeightWins ==
    [][( /\ pc = "detect"
         /\ Cardinality({r.duplicate_group_id :
                r \in MatchingRows(batch[idx].hash_keys, duplicate_dictionary)}) > 1 )
       => /\ ~batch'[idx].is_master
          /\ batch'[idx].duplicate_group_id
                \in BestGroups(batch[idx].hash_keys, duplicate_dictionary)
          /\ \A r \in OutvotedRows(batch[idx].hash_keys, duplicate_dictionary) :
                batch'[idx].duplicate_group_id # r.duplicate_group_id]_dedup_vars

\* C10 witness: a product was resolved whose key of the highest matching
\* weight is bound to one group and a matching key of lower weight to another.
C10_Witness ==
    \E j \in ResolvedInBatch :
        /\ OutvotedRows(batch[j].hash_keys, duplicate_dictionary) # {}
        /\ batch[j].duplicate_group_id
              \in BestGroups(batch[j].hash_keys, duplicate_dictionary)

(***************************************************************************)
(* Concurrent runs                                                         *)
(***************************************************************************)

\* the saved rows that are masters
MasterRows == { i \in 1..Len(products_enhanced) : products_enhanced[i].is_master }

\* C11: interleaved runs never give the same duplicate_group_id to two
\* different master products
C11_DistinctMasterGroupIds ==
    \A i, j \in MasterRows :
        products_enhanced[i].duplicate_group_id = products_enhanced[j].duplicate_group_id
            => i = j

(***************************************************************************)
(* Resolving and the dictionary                                            *)
(***************************************************************************)

\* the dictionary without its hit counters
WithoutHitCount(dict) == {[r EXCEPT !.hit_count = 0] : r \in dict}

\* the row is the one a lookup for these keys finds
FoundBy(r, hash_keys) == hash_keys[r.key_type] = r.hash_key

\* C15 (as stated): resolving a product leaves duplicate_dictionary as it
\* was: no row inserted, no field of a row modified.
C15_ResolvingLeavesDictionary ==
    [][pc = "detect" => duplicate_dictionary' = duplicate_dictionary]_dedup_vars

\* C15 (amended): resolving a product inserts no row, removes none and
\* modifies no field other than hit_count; it adds one to the hit_count of
\* exactly the rows its lookups found (hash_key and key_type both equal).
C15_ResolvingOnlyBumpsHitCount ==
    [][pc = "detect" =>
          /\ WithoutHitCount(duplicate_dictionary') = WithoutHitCount(duplicate_dictionary)
          /\ Cardinality(duplicate_dictionary') = Cardinality(duplicate_dictionary)
          /\ \A r \in duplicate_dictionary :
                [r EXCEPT !.hit_count =
                    IF FoundBy(r, batch[idx].hash_keys) THEN BumpHit(@) ELSE @]
                  \in duplicate_dictionary']_dedup_vars

\* C15 witness: the second product was resolved as a duplicate of the only
\* master so far, and the row of its sorted key, which no other key of that
\* master equals, so that it was registered with hit_count 0, now counts
\* one hit
C15_Witness ==
    /\ pc = "save"
    /\ Len(products_enhanced) = 1
    /\ batch[1].is_master = FALSE
    /\ \E r \in duplicate_dictionary :
          /\ r.key_type = "sorted"
          /\ FoundBy(r, batch[1].hash_keys)
          /\ \A t \in {"exact", "alpha", "sorted", "core", "dim", "phon"} \ {"sorted"} : batch[1].hash_keys[t] # r.hash_key
          /\ r.duplicate_group_id = batch[1].duplicate_group_id
          /\ r.hit_count = 1

(***************************************************************************)
(* Resolving the same product twice                                        *)
(***************************************************************************)

\* what detect_duplicates stores in a product
Verdict(product) ==
    <<product.duplicate_group_id, product.is_master, product.similarity_score>>

C17_NormalizeIdempotent ==
    applied.pc = "renormalized" => applied.result = applied.previous

(***************************************************************************)
(* Registering the keys of a master                                        *)
(***************************************************************************)

\* C19: when register_product_keys has run for a saved new master, each of
\* its six key values is a hash_key of the dictionary bound to the master's
\* duplicate_group_id.
C19_MasterKeysBound ==
    [][pc = "register" =>
          \A t \in {KeyTypes[k] : k \in 1..Len(KeyTypes)} :
              \E r \in duplicate_dictionary' :
                  /\ r.hash_key = batch[idx].hash_keys[t]
                  /\ r.duplicate_group_id = batch[idx].duplicate_group_id]_dedup_vars

\* the group a key value is bound to in the dictionary
BoundGroups(dict, hash_key) == {r.duplicate_group_id : r \in {x \in dict : x.hash_key = hash_key}}

\* C19 (amended): when register_product_keys has run for a saved new
\* master, each of its six key values is a hash_key of the dictionary; a
\* value that was not in the dictionary before is bound to the master's
\* duplicate_group_id, a value that was already there keeps the group it
\* was bound to.
C19_MasterKeysPresent ==
    [][pc = "register" =>
          \A t \in {KeyTypes[k] : k \in 1..Len(KeyTypes)} :
              LET hash_key == batch[idx].hash_keys[t]
                  before == BoundGroups(duplicate_dictionary, hash_key)
              IN  BoundGroups(duplicate_dictionary', hash_key) =
                      IF before = {} THEN {batch[idx].duplicate_group_id} ELSE before]_dedup_vars

\* C19 witness: the keys of a saved master have been registered, one of
\* them is bound to its group by its own registration and another one is
\* still bound to a different group
C19_Witness ==
    \E i \in MasterRows :
        LET hash_keys == HashKeysOf[products_enhanced[i].normalized_name]
            group == products_enhanced[i].duplicate_group_id
        IN  /\ \E r \in duplicate_dictionary :
                  /\ r.master_product_id = i
                  /\ r.duplicate_group_id = group
                  /\ r.hash_key = hash_keys[r.key_type]
            /\ \E t \in {KeyTypes[k] : k \in 1..Len(KeyTypes)} :
                  /\ BoundGroups(duplicate_dictionary, hash_keys[t]) # {}
                  /\ group \notin BoundGroups(duplicate_dictionary, hash_keys[t])

(***************************************************************************)
(* Joining through the core key                                            *)
(***************************************************************************)

\* C20: when a product is made a duplicate through its core key (the core
\* row is found and is the best match, at weight 0.85), the core key is not
\* empty: the two products share at least one vocabulary term.
C20_NoJoinThroughEmptyCore ==
    [][(/\ pc = "detect"
        /\ SelectByKeyAndType(duplicate_dictionary, batch[idx].hash_keys["core"], "core") # {}
        /\ batch'[idx].is_master = FALSE
        /\ batch'[idx].similarity_score = key_weights["core"])
       => batch[idx].hash_keys["core"] # <<>>]_dedup_vars

(***************************************************************************)
(* A batch whose classification call failed                                *)
(***************************************************************************)

\* C22: when the external call of classify_batch fails (the batch ends as
\* "error" in main), process_batch has saved the records of that batch: the
\* table products_enhanced has grown
C22_FailedBatchSaved ==
    [][(last_batch' = "error" /\ last_batch # "error")
          => Len(products_enhanced') > Len(products_enhanced)]_vars

(***************************************************************************)
(* Stopping run_local                                                      *)
(***************************************************************************)

\* C27: when the operator's stop request ends the run (answer quit), every
\* product of the batch that had been started has been saved
C27_StopAfterBatchPersisted ==
    [][(pc = "save" /\ last_batch' = "quit" /\ pc' = "idle")
          => Len(products_enhanced') >= Len(products_enhanced) + Len(batch)]_vars

(***************************************************************************)
(* The dim key                                                             *)
(***************************************************************************)

\* the name holds a dimension token of one of the four forms of dim_patterns:
\* a number with a unit, a pair WxH, a metric thread M<number>, a fraction
HasDimensionToken(name) ==
    \/ FirstDimUnit(str_lower(name)) # <<>>
    \/ FirstDimPair(str_lower(name)) # <<>>
    \/ FindAllMetric(name, 1) # <<>>
    \/ FindAllFractions(name, 1) # <<>>

\* C30: the content hash is the dim key only of a name without a dimension
\* token; for a name with one the key is built from the extracted values
C30_DimKeyFromTokens ==
    (applied.pc = "keys" /\ HasDimensionToken(applied.input))
        => applied.result.dim # Md5Hex10(applied.input)

(***************************************************************************)
(* mro_classifier.py: the taxonomy tables and MROClassifier                 *)
(***************************************************************************)

\* self.categories_by_dept["D03"]: the 16 category codes, in dict order
categories_by_dept ==
    << "S09", "S17", "S25", "S36", "S39", "S41", "S43", "S46",
       "S47", "S49", "S51", "S54", "S71", "S72", "S73", "S74" >>

\* self.subcategories_by_cat: the subcategory codes of each category, in
\* dict order (list(subs.keys())[0] is element 1)
subcategories_by_cat ==
    [
      S09 |-> << "C037", "C060", "C114", "C190", "C201", "C229" >>,
      S17 |-> << "C001", "C056", "C110", "C187" >>,
      S25 |-> << "C002", "C057", "C111", "C188", "C199", "C228", "C274", "C293",
                 "C311", "C326" >>,
      S36 |-> << "C042", "C095", "C145", "C175", "C221", "C247", "C268" >>,
      S39 |-> << "C026", "C080", "C133", "C164", "C215", "C241", "C270", "C291",
                 "C297", "C308", "C325" >>,
      S41 |-> << "C027", "C081", "C134", "C165", "C216", "C739", "C740", "C741",
                 "C742", "C743", "C744", "C745", "C746", "C747", "C748", "C749",
                 "C750", "C751", "C752", "C753", "C754", "C755" >>,
      S43 |-> << "C028", "C082", "C772" >>,
      S46 |-> << "C029", "C083", "C135", "C166", "C217", "C242", "C289", "C307",
                 "C324", "C337", "C346", "C358", "C366", "C377", "C390", "C395",
                 "C400", "C719", "C722" >>,
      S47 |-> << "C025", "C079", "C132", "C163", "C240", "C269", "C290", "C314",
                 "C329", "C340", "C350", "C360", "C773", "C774", "C775", "C776",
                 "C777", "C778", "C779", "C780", "C781" >>,
      S49 |-> << "C048", "C103", "C150", "C183" >>,
      S51 |-> << "C049", "C104", "C151", "C184", "C223", "C253", "C275", "C315",
                 "C330", "C382" >>,
      S54 |-> << "C051", "C097", "C152", "C178", "C224", "C249", "C278" >>,
      S71 |-> << "C716", "C717", "C718", "C719", "C720", "C721", "C722", "C723" >>,
      S72 |-> << "C724", "C725", "C726", "C727", "C728", "C729", "C730", "C731",
                 "C732", "C733", "C734", "C735", "C736", "C737", "C738" >>,
      S73 |-> << "C214", "C756", "C757", "C758", "C759", "C760", "C761", "C762",
                 "C763", "C764", "C765", "C766", "C767", "C768", "C769", "C770",
                 "C771" >>,
      S74 |-> << "C782", "C783", "C784", "C785", "C786", "C787", "C788" >> ]

\* mutation of fallback_map: S39 falls back to the code of S41
fallback_map_swapped ==
    [ S39 |-> "C134", S41 |-> "C134", S43 |-> "C082", S46 |-> "C390",
      S47 |-> "C290", S49 |-> "C183", S51 |-> "C253", S71 |-> "C721",
      S73 |-> "C214" ]

\* the fallback_map of classify_subcategory
fallback_map ==
    [ S39 |-> "C291", S41 |-> "C134", S43 |-> "C082", S46 |-> "C390",
      S47 |-> "C290", S49 |-> "C183", S51 |-> "C253", S71 |-> "C721",
      S73 |-> "C214" ]

\* claude_classify(prompt, pattern, max_retries = 5)
max_retries == 5

\* the value None of an absent code or error
None == "None"

SeqToSet(q) == {q[i] : i \in 1..Len(q)}

\* the characters of a match joined into one code string
RECURSIVE ToStr(_)
ToStr(q) == IF q = <<>> THEN "" ELSE Head(q) \o ToStr(Tail(q))

\* pattern matches at position i of text: a letter followed by n digits
\* (r"S\d{2}" and r"C\d{3}")
PatternAt(text, i, letter, n) ==
    /\ i + n <= Len(text)
    /\ text[i] = letter
    /\ \A k \in 1..n : IsDigit(text[i + k])

\* m = re.search(pattern, text); m.group() if m else None
re_search(text, letter, n) ==
    LET hits == {i \in 1..Len(text) : PatternAt(text, i, letter, n)}
    IN  IF hits = {} THEN None
        ELSE LET i == CHOOSE h \in hits : \A g \in hits : h <= g
             IN  ToStr(SubSeq(text, i, i + n))

\* what claude_classify returns for a response with this text
claude_classify(text, stage) ==
    IF stage = "cat" THEN re_search(text, "S", 2) ELSE re_search(text, "C", 3)

\* word in product_lower
Contains(s, word) == \E i \in 1..Len(s) : StartsWithAt(s, i, word)

\* any(word in product_lower for word in words)
AnyWord(s, words) == \E w \in words : Contains(s, w)

\* classify_category: cat is what claude_classify returned
classify_category(product, cat) ==
    IF cat # None /\ cat \in SeqToSet(categories_by_dept)
    THEN cat
    ELSE LET product_lower == str_lower(product)
         IN  CASE AnyWord(product_lower,
                     { <<"p","a","r","a","f","u","s","o">>, <<"p","o","r","c","a">>,
                       <<"j","u","n","t","a">>,
                       <<"v","e","d","a","c-cedilla","a-tilde","o">> }) -> "S39"
               [] AnyWord(product_lower,
                     { <<"f","e","r","r","a","m","e","n","t","a">>,
                       <<"c","h","a","v","e">>,
                       <<"f","u","r","a","d","e","i","r","a">> }) -> "S41"
               [] AnyWord(product_lower,
                     { <<"d","i","s","j","u","n","t","o","r">>, <<"r","e","l","e">>,
                       <<"c","o","n","t","a","t","o","r">>,
                       <<"m","o","d","u","l","o">> }) -> "S47"
               [] AnyWord(product_lower,
                     { <<"a","u","t","o","m","a","c-cedilla","a-tilde","o">>,
                       <<"c","l","p">>, <<"s","i","m","a","t","i","c">> }) -> "S71"
               [] OTHER -> "S43"

\* classify_subcategory: sub is what claude_classify returned
classify_subcategory(cat, sub) ==
    LET subs == subcategories_by_cat[cat]
    IN  IF sub # None /\ sub \in SeqToSet(subs)
        THEN sub
        ELSE IF cat \in DOMAIN fallback_map THEN fallback_map[cat] ELSE subs[1]

\* the confidence classify_product computes, in hundredths
Confidence(cat_code, sub_code) ==
    33 + (IF cat_code # "" THEN 33 ELSE 0) + (IF sub_code # "" THEN 34 ELSE 0)

(***************************************************************************)
(* classify_product on its own, for every answer of the service            *)
(***************************************************************************)

\* product names given to classify_product: "porca M5", "5mm", "chave", "clp"
TestNames ==
    { <<"p","o","r","c","a"," ","M","5">>, <<"5","m","m">>,
      <<"c","h","a","v","e">>, <<"c","l","p">> }

\* response texts of the service for the category prompt: every SXX, and
\* a text without a code
CategoryTexts == {<<"S", a, b>> : a \in Digits, b \in Digits} \cup {<<"o","k">>}

\* response texts for the subcategory prompt: every CXXX, and a text
\* without a code
SubcategoryTexts ==
    {<<"C", a, b, c>> : a \in Digits, b \in Digits, c \in Digits} \cup {<<"o","k">>}

\* what claude_classify can return: the code found in a response text, None
\* for a text without a code, None after max_retries failed attempts; with
\* the behaviour of the service that led to it
Returned(texts, stage, codes) ==
    {[code |-> claude_classify(text, stage),
      service |-> IF claude_classify(text, stage) = None THEN "unparseable"
                  ELSE IF claude_classify(text, stage) \in codes THEN "valid"
                  ELSE "outside"] : text \in texts}
        \cup {[code |-> None, service |-> "failed"]}

\* classify_product, steps 1 and 2: the department is always D03, the
\* category comes from classify_category
ClassifyProductCategory ==
    /\ applied.pc = "idle"
    /\ \E name \in TestNames :
         \E cat \in Returned(CategoryTexts, "cat", SeqToSet(categories_by_dept)) :
            applied' = [pc |-> "category", input |-> name,
                        previous |-> <<cat.service>>,
                        result |-> [cat_code |-> classify_category(name, cat.code),
                                    sub_code |-> None, confidence |-> 0]]
    /\ UNCHANGED <<products_enhanced, duplicate_dictionary, pc, batch, idx,
                   allocated, last_batch, runs, mock>>
    /\ UNCHANGED mro_vars

\* classify_product, step 3 and the confidence: cat_code is never empty
ClassifyProductSubcategory ==
    /\ applied.pc = "category"
    /\ LET cat_code == applied.result.cat_code
       IN  \E sub \in Returned(SubcategoryTexts, "sub",
                              SeqToSet(subcategories_by_cat[cat_code])) :
              LET sub_code == classify_subcategory(cat_code, sub.code)
              IN  applied' = [applied EXCEPT
                     !.pc = "classified",
                     !.previous = Append(@, sub.service),
                     !.result = [@ EXCEPT !.sub_code = sub_code,
                                          !.confidence = Confidence(cat_code, sub_code)]]
    /\ UNCHANGED <<products_enhanced, duplicate_dictionary, pc, batch, idx,
                   allocated, last_batch, runs, mock>>
    /\ UNCHANGED mro_vars

ClassifyProductNext ==
    \/ ClassifyProductCategory
    \/ ClassifyProductSubcategory

(***************************************************************************)
(* Bounds of the orchestrator model                                        *)
(***************************************************************************)

\* the rows of mro_products (ids 1..NumMro)
NumMro == 2

\* the batch sizes an operator may pass on the command line (1..MaxBatchSize)
MaxBatchSize == 2

\* the counters of stats are kept apart up to MaxCount (more is stored as MaxCount)
MaxCount == 2

\* the batch size run_demo passes to BatchProcessor
DemoBatchSize == 5

\* product names of the imported rows: "porca M5", "5mm", "chave", "clp"
MroNames ==
    << <<"p","o","r","c","a"," ","M","5">>, <<"5","m","m">>,
       <<"c","h","a","v","e">>, <<"c","l","p">> >>

product_name(id) == MroNames[((id - 1) % Len(MroNames)) + 1]

\* response texts of the external service: a valid code, a code outside the
\* taxonomy, text without a code
CatTexts == { <<"S","4","1">>, <<"S","9","9">>, <<"o","k">> }
SubTexts == { <<"C","0","2","7">>, <<"C","9","9","9">>, <<"o","k">> }

\* str(e) of an exception that classify_product catches
ErrorText == "exception"

(***************************************************************************)
(* database_mro.py: MRODatabase                                            *)
(***************************************************************************)

\* SQL NULL of a text column and of confidence_score
NULL == "NULL"
NullScore == 0 - 1

\* a row as import_csv_data inserts it
ImportedRow ==
    [ processing_status |-> "pending", error_message |-> NULL,
      new_category_code |-> NULL, new_subcategory_code |-> NULL,
      confidence_score |-> NullScore ]

\* the ids of a set in ascending order (ORDER BY id)
RECURSIVE OrderById(_)
OrderById(S) ==
    IF S = {} THEN <<>>
    ELSE LET m == CHOOSE x \in S : \A y \in S : x <= y
         IN  <<m>> \o OrderById(S \ {m})

WithStatus(rows, status) == {id \in DOMAIN rows : rows[id].processing_status = status}

\* get_pending_products altered to skip only the completed rows
get_not_completed_products(rows, limit) ==
    LET ids == OrderById(DOMAIN rows \ WithStatus(rows, "completed"))
    IN  IF Len(ids) <= limit THEN ids ELSE SubSeq(ids, 1, limit)

\* get_pending_products(limit)
get_pending_products(rows, limit) ==
    LET ids == OrderById(WithStatus(rows, "pending"))
    IN  IF Len(ids) <= limit THEN ids ELSE SubSeq(ids, 1, limit)

\* update_classification(product_id, classification), the UPDATE committed
update_classification(rows, product_id, c) ==
    [rows EXCEPT ![product_id] =
        [@ EXCEPT !.new_category_code = c.cat_code,
                  !.new_subcategory_code = c.sub_code,
                  !.confidence_score = c.confidence,
                  !.processing_status = "completed"]]

\* mark_as_error(product_id, error_message), the UPDATE committed
mark_as_error(rows, product_id, error_message) ==
    [rows EXCEPT ![product_id] =
        [@ EXCEPT !.processing_status = "error",
                  !.error_message = error_message]]

(***************************************************************************)
(* batch_processor.py: BatchProcessor, one step per call of the classifier *)
(* service or of the store; run_demo.py; the commands of classify_mro.py   *)
(***************************************************************************)

\* One operator command runs at a time.  current_batch_id, the timestamps and
\* the name columns written with each code are not part of the state: no
\* step of the code reads them back.

\* the product_ids lists given to process_specific_products have at most
\* MaxRequested ids, drawn from 1..NumMro + 1 (the last one is no row)
MaxRequested == 2

RequestedIds == UNION {[1..n -> 1..(NumMro + 1)] : n \in 1..MaxRequested}

\* the limits given to run_demo
MaxLimit == NumMro

CapInc(n) == IF n < MaxCount THEN n + 1 ELSE n

ZeroStats == [total_processed |-> 0, successful |-> 0, failed |-> 0, batches_processed |-> 0]

\* the locals of claude_classify; exhausted counts the claude_classify calls
\* made for the current product that gave up after max_retries failed attempts
IdleCall == [stage |-> "none", attempt |-> 0, backoff |-> 0, exhausted |-> 0]

FirstCall(stage, exhausted) ==
    [stage |-> stage, attempt |-> 1, backoff |-> 1, exhausted |-> exhausted]

\* result of classify_product before its try block has stored anything
NewClassification ==
    [cat_code |-> None, sub_code |-> None, confidence |-> 0, error |-> None]

\* self.db.conn of a BatchProcessor that has not connected; leaked counts the
\* connections that were opened and are neither closed nor referenced
NoConnection == [conn |-> "none", leaked |-> 0]

\* MRODatabase.connect() succeeds: self.conn is bound to a new connection.
\* A connection self.conn referred to before is not closed by the code; the
\* destructor of the unreferenced object may have closed it or not
connect(c) ==
    IF c.conn = "open"
    THEN {[conn |-> "open", leaked |-> c.leaked], [conn |-> "open", leaked |-> c.leaked + 1]}
    ELSE {[conn |-> "open", leaked |-> c.leaked]}

\* MRODatabase.close(): closes the connection self.conn refers to
close(c) == [c EXCEPT !.conn = IF @ = "none" THEN "none" ELSE "closed"]

\* no batch has been completed since the last fetch
NoBatch == [products |-> 0, delay |-> FALSE]

\* the delay between batches taken after every batch
TakesDelayAlways(n, size) == n > 0

\* if pending_products and len(pending_products) == self.batch_size
TakesDelay(n, size) == n > 0 /\ n = size

MroInit ==
    /\ mro_products = [id \in 1..NumMro |-> ImportedRow]
    /\ command = "none"
    /\ mpc = "idle"
    /\ batch_size = 0
    /\ pending_products = <<>>
    /\ position = 0
    /\ call = IdleCall
    /\ classification = NewClassification
    /\ success = FALSE
    /\ stats = ZeroStats
    /\ results = "none"
    /\ connection = NoConnection
    /\ batch_delay = NoBatch

\* the product of the current loop iteration
product_id == pending_products[position]

\* classify_mro.py --classify: run_classification builds a BatchProcessor
\* and calls process_all_pending
RunClassification ==
    /\ mpc = "idle"
    /\ \E bs \in 1..MaxBatchSize : batch_size' = bs
    /\ command' = "classify"
    /\ mpc' = "process_all_pending"
    /\ stats' = ZeroStats
    /\ results' = "none"
    /\ UNCHANGED <<mro_products, pending_products, position, call, classification,
                   success>>
    /\ connection' = NoConnection
    /\ UNCHANGED batch_delay
    /\ UNCHANGED dedup_vars

\* process_all_pending returns ret (its finally clause closes the connection):
\* run_demo goes on to restore the skipped rows, every other caller returns
ProcessAllReturns(ret) ==
    /\ results' = ret
    /\ pending_products' = <<>>
    /\ position' = 0
    /\ batch_size' = 0
    /\ IF command = "run_demo"
       THEN mpc' = "restore" /\ UNCHANGED command
       ELSE mpc' = "idle" /\ command' = "none"

\* process_all_pending: self.db.connect() fails
ProcessAllConnectFails ==
    /\ mpc = "process_all_pending"
    /\ ProcessAllReturns("error")
    /\ UNCHANGED <<mro_products, call, classification, success, stats>>
    /\ connection' = IF command = "reprocess_errors" THEN close(connection) ELSE connection
    /\ UNCHANGED batch_delay
    /\ UNCHANGED dedup_vars

\* process_all_pending: connected, stats initialised
ProcessAllConnect ==
    /\ mpc = "process_all_pending"
    /\ stats' = ZeroStats
    /\ mpc' = "fetch"
    /\ UNCHANGED <<mro_products, command, batch_size, pending_products, position,
                   call, classification, success, results>>
    /\ connection' \in connect(connection)
    /\ UNCHANGED batch_delay
    /\ UNCHANGED dedup_vars

\* classify_product starts on the product of the next iteration
StartProduct ==
    /\ call' = FirstCall("cat", 0)
    /\ classification' = NewClassification
    /\ success' = FALSE
    /\ mpc' = "call"

\* pending_products = self.db.get_pending_products(limit = self.batch_size)
GetPendingProducts ==
    /\ mpc = "fetch"
    /\ LET fetched == get_pending_products(mro_products, batch_size)
       IN  IF fetched = <<>>
           THEN ProcessAllReturns("stats") /\ UNCHANGED <<call, classification, success>>
           ELSE /\ pending_products' = fetched
                /\ position' = 1
                /\ StartProduct
                /\ UNCHANGED <<command, batch_size, results>>
    /\ UNCHANGED <<mro_products, stats>>
    /\ connection' = IF get_pending_products(mro_products, batch_size) = <<>>
                     THEN close(connection) ELSE connection
    /\ batch_delay' = NoBatch
    /\ UNCHANGED dedup_vars

\* get_pending_products catches the failure of its query and returns []
GetPendingProductsFails ==
    /\ mpc = "fetch"
    /\ ProcessAllReturns("stats")
    /\ UNCHANGED <<mro_products, call, classification, success, stats>>
    /\ connection' = close(connection)
    /\ batch_delay' = NoBatch
    /\ UNCHANGED dedup_vars

\* claude_classify returns r to classify_category or classify_subcategory
\* (gave_up: it returns None after max_retries failed attempts)
ClaudeReturns(r, gave_up) ==
    LET exhausted == IF gave_up THEN call.exhausted + 1 ELSE call.exhausted
    IN  IF call.stage = "cat"
        THEN /\ classification' =
                   [classification EXCEPT
                      !.cat_code = classify_category(product_name(product_id), r)]
             /\ call' = FirstCall("sub", exhausted)
             /\ mpc' = "call"
        ELSE LET sub_code == classify_subcategory(classification.cat_code, r)
             IN  /\ classification' =
                       [classification EXCEPT
                          !.sub_code = sub_code,
                          !.confidence = Confidence(classification.cat_code, sub_code)]
                 /\ call' = [IdleCall EXCEPT !.exhausted = exhausted]
                 /\ mpc' = "store"

\* an attempt of claude_classify gets a response
ApiResponds ==
    /\ mpc = "call"
    /\ \E text \in (IF call.stage = "cat" THEN CatTexts ELSE SubTexts) :
         ClaudeReturns(claude_classify(text, call.stage), FALSE)
    /\ UNCHANGED <<mro_products, command, batch_size, pending_products, position,
                   success, stats, results>>
    /\ UNCHANGED <<connection, batch_delay>>
    /\ UNCHANGED dedup_vars

\* except anthropic.RateLimitError: sleep(backoff), backoff *= 2, next attempt;
\* after the last attempt the loop ends and None is returned
ApiRateLimit ==
    /\ mpc = "call"
    /\ IF call.attempt < max_retries
       THEN /\ call' = [call EXCEPT !.attempt = @ + 1, !.backoff = @ * 2]
            /\ UNCHANGED <<classification, mpc>>
       ELSE ClaudeReturns(None, TRUE)
    /\ UNCHANGED <<mro_products, command, batch_size, pending_products, position,
                   success, stats, results>>
    /\ UNCHANGED <<connection, batch_delay>>
    /\ UNCHANGED dedup_vars

\* except Exception: return None on the last attempt, else sleep(backoff),
\* backoff *= 2, next attempt
ApiException ==
    /\ mpc = "call"
    /\ IF call.attempt = max_retries
       THEN ClaudeReturns(None, TRUE)
       ELSE /\ call' = [call EXCEPT !.attempt = @ + 1, !.backoff = @ * 2]
            /\ UNCHANGED <<classification, mpc>>
    /\ UNCHANGED <<mro_products, command, batch_size, pending_products, position,
                   success, stats, results>>
    /\ UNCHANGED <<connection, batch_delay>>
    /\ UNCHANGED dedup_vars

\* an exception leaves claude_classify (raised inside one of its except
\* clauses, by print): classify_product catches it and sets result['error']
ClassifyProductRaises ==
    /\ mpc = "call"
    /\ classification' = [classification EXCEPT !.error = ErrorText]
    /\ call' = [IdleCall EXCEPT !.exhausted = call.exhausted]
    /\ mpc' = "store"
    /\ UNCHANGED <<mro_products, command, batch_size, pending_products, position,
                   success, stats, results>>
    /\ UNCHANGED <<connection, batch_delay>>
    /\ UNCHANGED dedup_vars

\* 'error' in classification: self.db.mark_as_error(product_id, ...) commits
MarkAsError ==
    /\ mpc = "store"
    /\ classification.error # None
    /\ mro_products' = mark_as_error(mro_products, product_id, classification.error)
    /\ mpc' = "stored"
    /\ UNCHANGED <<command, batch_size, pending_products, position, call,
                   classification, success, stats, results>>
    /\ UNCHANGED <<connection, batch_delay>>
    /\ UNCHANGED dedup_vars

\* mark_as_error fails, rolls back and returns False, which the caller ignores
MarkAsErrorFails ==
    /\ mpc = "store"
    /\ classification.error # None
    /\ mpc' = "stored"
    /\ UNCHANGED <<mro_products, command, batch_size, pending_products, position,
                   call, classification, success, stats, results>>
    /\ UNCHANGED <<connection, batch_delay>>
    /\ UNCHANGED dedup_vars

\* success = self.db.update_classification(product_id, classification): True
UpdateClassification ==
    /\ mpc = "store"
    /\ classification.error = None
    /\ mro_products' = update_classification(mro_products, product_id, classification)
    /\ success' = TRUE
    /\ mpc' = "stored"
    /\ UNCHANGED <<command, batch_size, pending_products, position, call,
                   classification, stats, results>>
    /\ UNCHANGED <<connection, batch_delay>>
    /\ UNCHANGED dedup_vars

\* update_classification fails, rolls back and returns False
UpdateClassificationFails ==
    /\ mpc = "store"
    /\ classification.error = None
    /\ success' = FALSE
    /\ mpc' = "stored"
    /\ UNCHANGED <<mro_products, command, batch_size, pending_products, position,
                   call, classification, stats, results>>
    /\ UNCHANGED <<connection, batch_delay>>
    /\ UNCHANGED dedup_vars

\* stats after the product of this iteration: failed += 1 or successful += 1,
\* then total_processed += 1
CountProduct(s) ==
    LET failed == classification.error # None \/ ~success
    IN  [s EXCEPT !.failed = IF failed THEN CapInc(@) ELSE @,
                  !.successful = IF failed THEN @ ELSE CapInc(@),
                  !.total_processed = CapInc(@)]

\* process_all_pending: the counters and the sleep after a product, then the
\* next product of the batch or, after the last one, batches_processed += 1
\* (and the delay after a full batch) and the next fetch
NextInBatch ==
    /\ mpc = "stored"
    /\ command # "specific"
    /\ IF position < Len(pending_products)
       THEN /\ stats' = CountProduct(stats)
            /\ position' = position + 1
            /\ StartProduct
            /\ UNCHANGED <<pending_products, batch_delay>>
       ELSE /\ stats' = [CountProduct(stats) EXCEPT !.batches_processed = CapInc(@)]
            /\ batch_delay' =
                  [products |-> Len(pending_products),
                   delay |-> TakesDelay(Len(pending_products), batch_size)]
            /\ pending_products' = <<>>
            /\ position' = 0
            /\ call' = IdleCall
            /\ classification' = NewClassification
            /\ success' = FALSE
            /\ mpc' = "fetch"
    /\ UNCHANGED <<mro_products, command, batch_size, results, connection>>
    /\ UNCHANGED dedup_vars

\* process_specific_products(product_ids): connected, stats initialised
ProcessSpecificProducts ==
    /\ mpc = "idle"
    /\ \E product_ids \in RequestedIds : pending_products' = product_ids
    /\ position' = 1
    /\ command' = "specific"
    /\ stats' = ZeroStats
    /\ results' = "none"
    /\ mpc' = "select"
    /\ UNCHANGED <<mro_products, batch_size, call, classification, success>>
    /\ connection' \in connect(NoConnection)
    /\ UNCHANGED batch_delay
    /\ UNCHANGED dedup_vars

\* process_specific_products: self.db.connect() fails
ProcessSpecificConnectFails ==
    /\ mpc = "idle"
    /\ results' = "error"
    /\ UNCHANGED <<mro_products, command, mpc, batch_size, pending_products, position,
                   call, classification, success, stats>>
    /\ connection' = NoConnection
    /\ UNCHANGED batch_delay
    /\ UNCHANGED dedup_vars

\* process_specific_products goes to the id after this one, or returns stats
NextRequested(s) ==
    /\ stats' = s
    /\ call' = IdleCall
    /\ classification' = NewClassification
    /\ success' = FALSE
    /\ IF position < Len(pending_products)
       THEN /\ position' = position + 1
            /\ mpc' = "select"
            /\ UNCHANGED <<pending_products, command, results>>
       ELSE /\ position' = 0
            /\ pending_products' = <<>>
            /\ mpc' = "idle"
            /\ command' = "none"
            /\ results' = "stats"
    /\ connection' = IF position < Len(pending_products) THEN connection
                     ELSE close(connection)

\* SELECT * FROM mro_products WHERE id = %s: a row that is not found counts
\* as failed and the loop continues, a row found is classified
SelectProduct ==
    /\ mpc = "select"
    /\ IF product_id \in DOMAIN mro_products
       THEN /\ StartProduct
            /\ UNCHANGED <<command, pending_products, position, stats, results,
                           connection>>
       ELSE NextRequested([stats EXCEPT !.failed = CapInc(@)])
    /\ UNCHANGED <<mro_products, batch_size, batch_delay>>
    /\ UNCHANGED dedup_vars

\* the SELECT raises: process_specific_products returns {**stats, 'error': ...}
SelectProductRaises ==
    /\ mpc = "select"
    /\ results' = "error"
    /\ mpc' = "idle"
    /\ command' = "none"
    /\ pending_products' = <<>>
    /\ position' = 0
    /\ UNCHANGED <<mro_products, batch_size, call, classification, success, stats>>
    /\ connection' = close(connection)
    /\ UNCHANGED batch_delay
    /\ UNCHANGED dedup_vars

\* process_specific_products: the counters and the sleep after a product
NextSpecific ==
    /\ mpc = "stored"
    /\ command = "specific"
    /\ NextRequested(CountProduct(stats))
    /\ UNCHANGED <<mro_products, batch_size, batch_delay>>
    /\ UNCHANGED dedup_vars

\* reprocess_errors: every error row is set to pending with its message
\* cleared, in one commit, then process_all_pending is called
ReprocessErrors ==
    /\ mpc = "idle"
    /\ WithStatus(mro_products, "error") # {}
    /\ mro_products' =
         [id \in DOMAIN mro_products |->
            IF mro_products[id].processing_status = "error"
            THEN [mro_products[id] EXCEPT !.processing_status = "pending",
                                          !.error_message = NULL]
            ELSE mro_products[id]]
    /\ \E bs \in 1..MaxBatchSize : batch_size' = bs
    /\ command' = "reprocess_errors"
    /\ mpc' = "process_all_pending"
    /\ stats' = ZeroStats
    /\ results' = "none"
    /\ UNCHANGED <<pending_products, position, call, classification, success>>
    /\ connection' \in connect(NoConnection)
    /\ UNCHANGED batch_delay
    /\ UNCHANGED dedup_vars

\* reprocess_errors finds no error row and returns {'total_processed': 0}
ReprocessErrorsNone ==
    /\ mpc = "idle"
    /\ WithStatus(mro_products, "error") = {}
    /\ results' = "stats"
    /\ stats' = ZeroStats
    /\ UNCHANGED <<mro_products, command, mpc, batch_size, pending_products, position,
                   call, classification, success>>
    /\ \E c \in connect(NoConnection) : connection' = close(c)
    /\ UNCHANGED batch_delay
    /\ UNCHANGED dedup_vars

\* reprocess_errors cannot connect, or one of its statements raises before
\* the commit: it returns {'error': ...} and nothing is changed
ReprocessErrorsFails ==
    /\ mpc = "idle"
    /\ results' = "error"
    /\ stats' = ZeroStats
    /\ UNCHANGED <<mro_products, command, mpc, batch_size, pending_products, position,
                   call, classification, success>>
    /\ \E c \in connect(NoConnection) : connection' \in {NoConnection, close(c)}
    /\ UNCHANGED batch_delay
    /\ UNCHANGED dedup_vars

\* mutation of MarkSkipped: the UPDATE without its processing_status = 'pending'
\* condition
MarkSkippedAnyStatus(rows, to_process) ==
    LET sub == get_pending_products(rows, to_process)
    IN  IF sub = <<>> THEN rows
        ELSE [id \in DOMAIN rows |->
                IF id > sub[1] + to_process - 1
                THEN [rows[id] EXCEPT !.processing_status = "skipped"]
                ELSE rows[id]]

\* the UPDATE of run_demo: pending rows with id > MIN(id) + to_process - 1,
\* the minimum taken over the first to_process pending ids, become skipped
MarkSkipped(rows, to_process) ==
    LET sub == get_pending_products(rows, to_process)
    IN  IF sub = <<>> THEN rows
        ELSE [id \in DOMAIN rows |->
                IF rows[id].processing_status = "pending" /\ id > sub[1] + to_process - 1
                THEN [rows[id] EXCEPT !.processing_status = "skipped"]
                ELSE rows[id]]

\* run_demo(limit): fewer than limit rows are completed, the rows beyond the
\* limit are marked skipped and BatchProcessor(batch_size = 5) is started
RunDemo ==
    /\ mpc = "idle"
    /\ \E limit \in 1..MaxLimit :
         LET completed == Cardinality(WithStatus(mro_products, "completed"))
         IN  /\ completed < limit
             /\ mro_products' = MarkSkipped(mro_products, limit - completed)
    /\ batch_size' = DemoBatchSize
    /\ command' = "run_demo"
    /\ mpc' = "process_all_pending"
    /\ stats' = ZeroStats
    /\ results' = "none"
    /\ UNCHANGED <<pending_products, position, call, classification, success>>
    /\ connection' = NoConnection
    /\ UNCHANGED batch_delay
    /\ UNCHANGED dedup_vars

\* run_demo: after process_all_pending, every skipped row is set to pending
RestoreSkipped ==
    /\ mpc = "restore"
    /\ mro_products' =
         [id \in DOMAIN mro_products |->
            IF mro_products[id].processing_status = "skipped"
            THEN [mro_products[id] EXCEPT !.processing_status = "pending"]
            ELSE mro_products[id]]
    /\ mpc' = "idle"
    /\ command' = "none"
    /\ UNCHANGED <<batch_size, pending_products, position, call, classification,
                   success, stats, results>>
    /\ UNCHANGED <<connection, batch_delay>>
    /\ UNCHANGED dedup_vars

\* run_demo: the connection for the restore fails (if db.connect() is false)
\* and the skipped rows stay skipped
RestoreSkippedFails ==
    /\ mpc = "restore"
    /\ mpc' = "idle"
    /\ command' = "none"
    /\ UNCHANGED <<mro_products, batch_size, pending_products, position, call,
                   classification, success, stats, results>>
    /\ UNCHANGED <<connection, batch_delay>>
    /\ UNCHANGED dedup_vars

MroNext ==
    \/ RunClassification
    \/ ProcessAllConnect
    \/ ProcessAllConnectFails
    \/ GetPendingProducts
    \/ GetPendingProductsFails
    \/ ApiResponds
    \/ ApiRateLimit
    \/ ApiException
    \/ ClassifyProductRaises
    \/ MarkAsError
    \/ MarkAsErrorFails
    \/ UpdateClassification
    \/ UpdateClassificationFails
    \/ NextInBatch
    \/ ProcessSpecificProducts
    \/ ProcessSpecificConnectFails
    \/ SelectProduct
    \/ SelectProductRaises
    \/ NextSpecific
    \/ ReprocessErrors
    \/ ReprocessErrorsNone
    \/ ReprocessErrorsFails
    \/ RunDemo
    \/ RestoreSkipped
    \/ RestoreSkippedFails

(***************************************************************************)
(* run_cached_classification.py and CachedMROClassifier                    *)
(* .classify_batch_with_cache: one step per call of the service or of the  *)
(* store.  The run is held in applied:                                     *)
(*   pending_products  the ids handed to classify_batch_with_cache         *)
(*   results           the list classify_batch_with_cache builds           *)
(*   i                 the offset of its batch loop, then the position of  *)
(*                     the update loop in results                          *)
(***************************************************************************)

\* batch_size = 20 of run_cached_classification
CachedBatchSize == 20

\* the elements of the JSON array of a response, as read with .get and its
\* defaults: an object with every key, and the empty object
CachedAnswers ==
    { [cat_code |-> "S41", sub_code |-> "C027", confidence |-> 95],
      [cat_code |-> "", sub_code |-> "", confidence |-> 80] }

\* the arrays a response may hold for a batch of n products: fewer elements,
\* as many, one more
CachedArrays(n) == UNION {[1..m -> CachedAnswers] : m \in 0..(n + 1)}

\* for j, classification in enumerate(classifications): if j < len(batch):
\* results.append({'id': product['id'], ...})
MapBack(cached_batch, classifications) ==
    [j \in 1..(IF Len(classifications) < Len(cached_batch)
               THEN Len(classifications) ELSE Len(cached_batch)) |->
        [id |-> cached_batch[j], error |-> None,
         cat_code |-> classifications[j].cat_code,
         sub_code |-> classifications[j].sub_code,
         confidence |-> classifications[j].confidence]]

\* except Exception as e: for product in batch: results.append({'id': ...,
\* 'error': str(e)})
ErrorResults(cached_batch) ==
    [j \in 1..Len(cached_batch) |->
        [id |-> cached_batch[j], error |-> ErrorText,
         cat_code |-> None, sub_code |-> None, confidence |-> 0]]

\* what one iteration of the batch loop appends to results.  The service
\* call or json.loads raises (raised, no array), the response text holds no
\* array (no array read), it holds one (classifications); after the array is
\* mapped back a later statement of the try block may still raise
\* (cache_read is unbound when message.usage has no cache_read_input_tokens)
BatchOutcomes(cached_batch) ==
    {ErrorResults(cached_batch), <<>>}
        \cup {MapBack(cached_batch, c) : c \in CachedArrays(Len(cached_batch))}
        \cup {MapBack(cached_batch, c) \o ErrorResults(cached_batch) :
                 c \in CachedArrays(Len(cached_batch))}

\* run_cached_classification: connected, pending_products fetched (no limit)
\* and not empty
CachedStart ==
    /\ mpc = "idle"
    /\ applied.pc \in {"idle", "cached_done"}
    /\ LET fetched == get_pending_products(mro_products, Cardinality(DOMAIN mro_products))
       IN  /\ fetched # <<>>
           /\ applied' = [pc |-> "cached_batch", pending_products |-> fetched,
                          results |-> <<>>, i |-> 0]
    /\ UNCHANGED <<products_enhanced, duplicate_dictionary, pc, batch, idx,
                   allocated, last_batch, runs, mock>>
    /\ UNCHANGED mro_vars

\* classify_batch_with_cache: one iteration of for i in range(0,
\* total_products, batch_size); after the last one results is returned and
\* the update loop starts
CachedClassifyBatch ==
    /\ applied.pc = "cached_batch"
    /\ LET products == applied.pending_products
           last == IF applied.i + CachedBatchSize < Len(products)
                   THEN applied.i + CachedBatchSize ELSE Len(products)
           cached_batch == SubSeq(products, applied.i + 1, last)
       IN  \E appended \in BatchOutcomes(cached_batch) :
              applied' = [applied EXCEPT
                 !.results = @ \o appended,
                 !.i = IF last < Len(products) THEN last ELSE 1,
                 !.pc = IF last < Len(products) THEN "cached_batch"
                        ELSE "cached_update"]
    /\ UNCHANGED <<products_enhanced, duplicate_dictionary, pc, batch, idx,
                   allocated, last_batch, runs, mock>>
    /\ UNCHANGED mro_vars

\* for result in results: mark_as_error or update_classification commits
CachedStoreResult ==
    /\ applied.pc = "cached_update"
    /\ applied.i <= Len(applied.results)
    /\ LET result == applied.results[applied.i]
       IN  mro_products' =
              IF result.error # None
              THEN mark_as_error(mro_products, result.id, result.error)
              ELSE update_classification(mro_products, result.id, result)
    /\ applied' = [applied EXCEPT !.i = @ + 1]
    /\ UNCHANGED <<products_enhanced, duplicate_dictionary, pc, batch, idx,
                   allocated, last_batch, runs, mock>>
    /\ UNCHANGED <<command, mpc, batch_size, pending_products, position, call,
                   classification, success, stats, results, connection,
                   batch_delay>>

\* mark_as_error or update_classification fails, rolls back and returns
\* False; the loop goes on
CachedStoreFails ==
    /\ applied.pc = "cached_update"
    /\ applied.i <= Len(applied.results)
    /\ applied' = [applied EXCEPT !.i = @ + 1]
    /\ UNCHANGED <<products_enhanced, duplicate_dictionary, pc, batch, idx,
                   allocated, last_batch, runs, mock>>
    /\ UNCHANGED mro_vars

\* the update loop is over: the summary is printed (or the division by
\* len(results) raises), the connection is closed and the run returns
CachedReturn ==
    /\ applied.pc = "cached_update"
    /\ applied.i > Len(applied.results)
    /\ applied' = [applied EXCEPT !.pc = "cached_done"]
    /\ UNCHANGED <<products_enhanced, duplicate_dictionary, pc, batch, idx,
                   allocated, last_batch, runs, mock>>
    /\ UNCHANGED mro_vars

CachedNext ==
    \/ CachedStart
    \/ CachedClassifyBatch
    \/ CachedStoreResult
    \/ CachedStoreFails
    \/ CachedReturn

(***************************************************************************)
(* claude_classify on its own (mro_classifier.py, and the earlier version  *)
(* of old-code.py): one step per attempt of its retry loop.  The call is   *)
(* held in applied:                                                        *)
(*   variant   which of the two versions runs                              *)
(*   stage     the pattern it is called with (category or subcategory)     *)
(*   attempt   the loop variable, backoff the local of that name           *)
(*   attempts  history: how each call of the service ended                 *)
(*   slept     history: the argument of each time.sleep                    *)
(*   returned  the value returned                                          *)
(***************************************************************************)

\* backoff *= 2 replaced by backoff += 2
NextBackoffLinear(backoff) == backoff + 2

\* backoff *= 2
NextBackoff(backoff) == backoff * 2

\* how a call of the service can fail: anthropic.RateLimitError (quota), a
\* timeout (anthropic.APITimeoutError), a response without content
\* (message.content[0] raises IndexError)
FailureKinds == {"quota", "timeout", "no_content"}

\* the except clause that catches a failure: "retry" stands for a clause that
\* sleeps and goes to the next attempt (RateLimitError in both versions,
\* RequestException / ConnectionError and APIError in old-code.py, where a
\* timeout is an APIError), "exception" for the last clause, except Exception
Handler(variant, kind) ==
    IF kind = "quota" \/ (variant = "old-code" /\ kind = "timeout")
    THEN "retry" ELSE "exception"

\* claude_classify(prompt, pattern) is called
ClaudeClassifyStart ==
    /\ applied.pc \in {"idle", "claude_returned"}
    /\ \E variant \in {"mro_classifier", "old-code"}, stage \in {"cat", "sub"} :
         applied' = [pc |-> "claude_attempt", variant |-> variant, stage |-> stage,
                     attempt |-> 1, backoff |-> 1, attempts |-> <<>>,
                     slept |-> <<>>, returned |-> None]
    /\ UNCHANGED <<products_enhanced, duplicate_dictionary, pc, batch, idx,
                   allocated, last_batch, runs, mock>>
    /\ UNCHANGED mro_vars

\* the service answers with a text: the code found in it is returned, None
\* when it holds none
ClaudeClassifyResponds ==
    /\ applied.pc = "claude_attempt"
    /\ \E text \in (IF applied.stage = "cat" THEN CatTexts ELSE SubTexts) :
         LET m == claude_classify(text, applied.stage)
         IN  applied' = [applied EXCEPT
                !.pc = "claude_returned",
                !.attempts = Append(@, IF m = None THEN "text_without_code" ELSE "code"),
                !.returned = m]
    /\ UNCHANGED <<products_enhanced, duplicate_dictionary, pc, batch, idx,
                   allocated, last_batch, runs, mock>>
    /\ UNCHANGED mro_vars

\* a clause that sleeps and retries: time.sleep(backoff), backoff *= 2, next
\* attempt; after the last attempt the loop is over and None is returned
ClaudeClassifyRetries ==
    /\ applied.pc = "claude_attempt"
    /\ \E kind \in FailureKinds :
         /\ Handler(applied.variant, kind) = "retry"
         /\ applied' = [applied EXCEPT
                !.attempts = Append(@, kind),
                !.slept = Append(@, applied.backoff),
                !.backoff = NextBackoff(@),
                !.attempt = IF @ < max_retries THEN @ + 1 ELSE @,
                !.pc = IF applied.attempt < max_retries THEN "claude_attempt"
                       ELSE "claude_returned"]
    /\ UNCHANGED <<products_enhanced, duplicate_dictionary, pc, batch, idx,
                   allocated, last_batch, runs, mock>>
    /\ UNCHANGED mro_vars

\* except Exception: if attempt == max_retries: return None; else
\* time.sleep(backoff), backoff *= 2, next attempt
ClaudeClassifyException ==
    /\ applied.pc = "claude_attempt"
    /\ \E kind \in FailureKinds :
         /\ Handler(applied.variant, kind) = "exception"
         /\ IF applied.attempt = max_retries
            THEN applied' = [applied EXCEPT !.attempts = Append(@, kind),
                                            !.pc = "claude_returned"]
            ELSE applied' = [applied EXCEPT
                    !.attempts = Append(@, kind),
                    !.slept = Append(@, applied.backoff),
                    !.backoff = NextBackoff(@),
                    !.attempt = @ + 1]
    /\ UNCHANGED <<products_enhanced, duplicate_dictionary, pc, batch, idx,
                   allocated, last_batch, runs, mock>>
    /\ UNCHANGED mro_vars

ClaudeClassifyNext ==
    \/ ClaudeClassifyStart
    \/ ClaudeClassifyResponds
    \/ ClaudeClassifyRetries
    \/ ClaudeClassifyException

(***************************************************************************)
(* Properties of the classification orchestrator                           *)
(***************************************************************************)

\* process_all_pending is running (called by any command)
ProcessAllRunning ==
    /\ command \in {"classify", "reprocess_errors", "run_demo"}
    /\ mpc \in {"process_all_pending", "fetch", "call", "store", "stored"}

\* the batch loop of process_all_pending is handling a product
InBatchLoop == ProcessAllRunning /\ position > 0

\* C4: when both claude_classify calls made for a product gave up after
\* max_retries failed attempts, the write that follows in process_all_pending
\* leaves the product with status error and a message, and the loop then
\* goes on (next product or next fetch) with the product still in error.
C4_ExhaustedRetriesMarkError ==
    [][(InBatchLoop /\ call.exhausted = 2)
         => /\ mpc = "store" =>
                 /\ mro_products'[product_id].processing_status = "error"
                 /\ mro_products'[product_id].error_message # NULL
            /\ mpc = "stored" =>
                 /\ mro_products'[product_id].processing_status = "error"
                 /\ mpc' \in {"call", "fetch"}]_vars

C6_ProcessAllTerminates == ProcessAllRunning ~> ~ProcessAllRunning

\* C7: when update_classification returned False for a product of the batch
\* loop, the product ends with status error and the loop goes on with the
\* next product (or the next fetch).
C7_StoreFailureMarksError ==
    [][(InBatchLoop /\ mpc = "stored" /\ classification.error = None /\ ~success)
         => /\ mro_products'[product_id].processing_status = "error"
            /\ mpc' \in {"call", "fetch"}]_vars

\* the row holds the data its status stands for: a completed row its
\* classification codes and score, an error row its message
RowDataStored(row) ==
    /\ row.processing_status = "completed" =>
          /\ row.new_category_code \notin {NULL, None}
          /\ row.new_subcategory_code \notin {NULL, None}
          /\ row.confidence_score # NullScore
    /\ row.processing_status = "error" => row.error_message \notin {NULL, None}

\* the classifier of process_all_pending works only on a product that is
\* pending in the store
ClassifiesOnlyPending ==
    (ProcessAllRunning /\ mpc = "call") =>
        mro_products[product_id].processing_status = "pending"

C13_ReprocessedEndCompletedOrError ==
    [][(/\ command = "reprocess_errors"
        /\ mpc = "store"
        /\ mpc' = "stored"
        /\ classification.error = None)
       => mro_products'[product_id].processing_status \in {"completed", "error"}]_vars

(***************************************************************************)
(* classify_mro.py --setup / --import-csv: setup_database                  *)
(***************************************************************************)

\* create_tables committed: DROP TABLE IF EXISTS mro_products CASCADE, then
\* CREATE TABLE: the table is empty and its id sequence starts again
create_tables(rows) == SubSeq(rows, 1, 0)

\* import_csv_data committed: one pending row per line of the CSV, with the
\* next ids of the table
import_csv_data(rows, records) == rows \o [i \in 1..records |-> ImportedRow]

\* setup_database: db.connect() fails, nothing is touched
SetupConnectFails ==
    /\ mpc = "idle"
    /\ results' = "error"
    /\ UNCHANGED <<mro_products, command, mpc, batch_size, pending_products, position,
                   call, classification, success, stats>>
    /\ UNCHANGED <<connection, batch_delay>>
    /\ UNCHANGED dedup_vars

\* setup_database(None): create_tables only; when it fails it rolls back and
\* setup_database still returns True
SetupDatabase ==
    /\ mpc = "idle"
    /\ \/ mro_products' = create_tables(mro_products)
       \/ mro_products' = mro_products
    /\ results' = "ok"
    /\ UNCHANGED <<command, mpc, batch_size, pending_products, position,
                   call, classification, success, stats>>
    /\ UNCHANGED <<connection, batch_delay>>
    /\ UNCHANGED dedup_vars

\* setup_database(csv_path): create_tables, then import_csv_data whether or
\* not create_tables succeeded; a failed import rolls back and returns 0
SetupImport ==
    /\ mpc = "idle"
    /\ \E created \in BOOLEAN :
         LET table == IF created THEN create_tables(mro_products) ELSE mro_products
         IN  \/ /\ \E records \in 1..(NumMro - Len(table)) :
                     mro_products' = import_csv_data(table, records)
                /\ results' = "ok"
             \/ /\ mro_products' = table
                /\ results' = "error"
    /\ UNCHANGED <<command, mpc, batch_size, pending_products, position,
                   call, classification, success, stats>>
    /\ UNCHANGED <<connection, batch_delay>>
    /\ UNCHANGED dedup_vars

OperatorNext ==
    \/ SetupConnectFails
    \/ SetupDatabase
    \/ SetupImport
    \/ MroNext

\* C14: no operator command removes an imported product: every row of
\* mro_products is still a row after any step of any command.
C14_NoProductRemoved ==
    [][\A id \in DOMAIN mro_products : id \in DOMAIN mro_products']_vars

(***************************************************************************)
(* Properties of classify_product                                          *)
(***************************************************************************)

\* C18: whatever the service answers (a valid code, a code outside the
\* taxonomy, text without a code, failure of every attempt), the cat_code
\* classify_product returns is one of the 16 categories and its sub_code is
\* in that category's subcategory table.
C18_CodesInTaxonomy ==
    /\ applied.pc \in {"category", "classified"} =>
          applied.result.cat_code \in SeqToSet(categories_by_dept)
    /\ applied.pc = "classified" =>
          applied.result.sub_code
              \in SeqToSet(subcategories_by_cat[applied.result.cat_code])

\* C18 witness: every attempt failed for both prompts and the product
\* "porca M5" came back as S39 with the fallback subcategory C291
C18_Witness ==
    /\ applied.pc = "classified"
    /\ applied.previous = <<"failed", "failed">>
    /\ applied.result.cat_code = "S39"
    /\ applied.result.sub_code = "C291"

(***************************************************************************)
(* Properties of run_cached_classification                                 *)
(***************************************************************************)

\* the results classify_batch_with_cache returned that carry this id
ResultsOf(id) == {j \in 1..Len(applied.results) : applied.results[j].id = id}

\* C21: when classify_batch_with_cache has returned, every product handed to
\* it has exactly one result carrying its id (so that the update loop
\* records one outcome, completed or error, for each of them)
C21_OneResultPerProduct ==
    applied.pc = "cached_update" =>
        \A k \in 1..Len(applied.pending_products) :
            Cardinality(ResultsOf(applied.pending_products[k])) = 1

(***************************************************************************)
(* A store failure at the start of a batch                                 *)
(***************************************************************************)

\* C23: process_all_pending leaves its batch loop with a normal result (its
\* stats, no 'error' entry) only when no pending product is left; a fetch of
\* the pending products that failed ends the run with an 'error' entry
C23_FetchFailureIsError ==
    [][(mpc = "fetch" /\ mpc' # "fetch" /\ results' = "stats")
          => WithStatus(mro_products', "pending") = {}]_vars

(***************************************************************************)
(* Properties of claude_classify                                           *)
(***************************************************************************)

\* the failures the specification names: no code was obtained from the call
ClassifierErrors == FailureKinds \cup {"text_without_code"}

\* C24: claude_classify gives up only at the attempt bound: when it has
\* returned after a call that ended in a classifier failure (a timeout,
\* quota exhaustion, a response from which no code can be extracted), that
\* call was attempt number max_retries
C24_EveryFailureRetried ==
    (/\ applied.pc = "claude_returned"
     /\ applied.attempts[Len(applied.attempts)] \in ClassifierErrors)
        => Len(applied.attempts) = max_retries

\* C25: claude_classify calls the service at most max_retries times, no call
\* follows one that returned a response, every wait follows a failed
\* attempt, and the waits are 1, 2, 4, ... seconds
C25_BoundedCallsDoublingWaits ==
    applied.pc \in {"claude_attempt", "claude_returned"} =>
        /\ Len(applied.attempts) <= max_retries
        /\ \A k \in 1..(Len(applied.attempts) - 1) :
              applied.attempts[k] \in FailureKinds
        /\ Len(applied.slept) <= Len(applied.attempts)
        /\ \A k \in 1..Len(applied.slept) :
              /\ applied.attempts[k] \in FailureKinds
              /\ applied.slept[k] = 2 ^ (k - 1)

\* every attempt hit the rate limit: five calls, waits of 1, 2, 4, 8, 16
C25_Witness ==
    /\ applied.pc = "claude_returned"
    /\ Len(applied.attempts) = max_retries
    /\ applied.slept = <<1, 2, 4, 8, 16>>

(***************************************************************************)
(* The delay between batches, the statistics, the connections              *)
(***************************************************************************)

\* C26: in process_all_pending the delay between batches has been taken
\* after a completed batch if and only if that batch held exactly batch_size
\* products
C26_DelayIffFullBatch ==
    (mpc = "fetch" /\ batch_delay # NoBatch) =>
        (batch_delay.delay <=> batch_delay.products = batch_size)

\* a batch shorter than batch_size was completed and the delay was skipped
C26_Witness ==
    /\ mpc = "fetch"
    /\ batch_delay # NoBatch
    /\ batch_delay.products < batch_size
    /\ ~batch_delay.delay

\* C28: in the statistics of process_all_pending and process_specific_products
\* total_processed = successful + failed after every product handled (as far
\* as the counters are kept apart)
C28_TotalIsSuccessfulPlusFailed ==
    stats.successful + stats.failed <= MaxCount =>
        stats.total_processed = stats.successful + stats.failed

\* C29: when no BatchProcessor operation is running, every connection the
\* last one opened has been closed
C29_ConnectionsClosed ==
    mpc \in {"idle", "restore"} =>
        (connection.conn # "open" /\ connection.leaked = 0)

(***************************************************************************)
(* Specifications                                                          *)
(***************************************************************************)

Init == DedupInit /\ MroInit

Next ==
    \/ DedupNext
    \/ ConcurrentNext
    \/ ResolveNext
    \/ NormalizeNext
    \/ ClassifyProductNext
    \/ OperatorNext
    \/ HashKeysNext
    \/ CachedNext
    \/ LocalNext
    \/ ClaudeClassifyNext

\* the deduplication pipeline (process_products.py)
SpecDedup == Init /\ [][DedupNext]_vars

\* the classification orchestrator (classify_mro.py, run_demo.py)
SpecMro == Init /\ [][MroNext]_vars

\* concurrent runs of the deduplication pipeline on one database
SpecConcurrent == Init /\ [][ConcurrentNext]_vars

\* classify_product for every answer of the service to its two prompts
SpecClassifyProduct == Init /\ [][ClassifyProductNext]_vars

\* normalize_product_name applied to raw names and to its own results
SpecNormalize == Init /\ [][NormalizeNext]_vars

\* detect_duplicates called again on its own result, on either manager
SpecResolve == Init /\ [][ResolveNext]_vars

\* every operator command of classify_mro.py and run_demo.py
SpecOperator == Init /\ [][OperatorNext]_vars

\* run_cached_classification alone, run after run
\* run_local.py
SpecLocal == Init /\ [][LocalNext]_vars

\* generate_hash_keys alone, name after name
SpecHashKeys == Init /\ [][HashKeysNext]_vars

SpecCached == Init /\ [][CachedNext]_vars

\* claude_classify alone, call after call
SpecClaudeClassify == Init /\ [][ClaudeClassifyNext]_vars

\* the orchestrator under the assumption that a running program takes its
\* next step (the loops are sequential code; the services always answer)
SpecMroFair == SpecMro /\ WF_vars(MroNext)

Spec == Init /\ [][Next]_vars

====
